---- MODULE Spec2Model ----
(***************************************************************************)
(* State-machine model of the Operyx Kitchen Pro front end: the URL-held   *)
(* selection (Layout), the workflow pages (Budget, Labour, Cash, Evidence) *)
(* and the read-only pages (Monday Brief, Variance, Guardian Findings).    *)
(*                                                                         *)
(* One page is mounted (route).  Its React state is the record st, whose   *)
(* fields carry the names of the page's useState variables.  Every call of *)
(* an async function (an effect's loader or a write handler) that is       *)
(* suspended at an await is an entry of tasks; the entry holds the values  *)
(* the call captured from the render it was started in (its closure) and   *)
(* the await it is suspended at (pc).  The backend is the record db; a     *)
(* request is answered when its task is settled.  base is a history        *)
(* variable (see Track) and events counts the user's actions.              *)
(***************************************************************************)
EXTENDS Integers, Sequences, FiniteSets, TLC

VARIABLES route, venueId, week, st, tasks, db, base, events

vars == <<route, venueId, week, st, tasks, db, base, events>>

(***************************************************************************)
(* Bounds                                                                  *)
(***************************************************************************)
MaxEvents == 5       \* user actions (clicks, selections, typing) in a run
MaxTasks == 2        \* async calls suspended at an await at the same time
MaxRecords == 3      \* records the backend holds per entity kind
MaxReasonLen == 2    \* characters typed into a reason field
MaxDateLen == 6      \* characters of a date string

(***************************************************************************)
(* Values                                                                  *)
(***************************************************************************)
Venues == {"v1", "v2"}
Weeks == {"w1", "w2"}
NoParam == ""                       \* searchParams.get(..) || ""
NullError == "<null>"               \* error === null
Msgs == {"Bad Request"}             \* messages of thrown Errors
None == <<>>                        \* a null object reference
Some(x) == <<x>>
Routes == {"budget", "labour", "cash", "evidence", "brief", "variance", "findings"}
WorkflowRoutes == {"budget", "labour", "cash", "evidence"}
StatusFilters == {"all", "draft", "confirmed", "superseded"}
Sources == {"rota", "other"}
SourceFilters == {"all"} \cup Sources
Chars == {" ", "x"}

(***************************************************************************)
(* Sequence helpers                                                        *)
(***************************************************************************)
RemoveAt(s, i) == SubSeq(s, 1, i - 1) \o SubSeq(s, i + 1, Len(s))

\* s back to front
Reverse(s) == [k \in 1..Len(s) |-> s[Len(s) + 1 - k]]

StringsUpTo(n) == UNION {[1..k -> Chars] : k \in 0..n}

RECURSIVE TrimStart(_)
TrimStart(s) == IF Len(s) > 0 /\ Head(s) = " " THEN TrimStart(Tail(s)) ELSE s

RECURSIVE TrimEnd(_)
TrimEnd(s) ==
  IF Len(s) > 0 /\ s[Len(s)] = " " THEN TrimEnd(SubSeq(s, 1, Len(s) - 1)) ELSE s

\* String.prototype.trim
trim(s) == TrimEnd(TrimStart(s))

\* a faulty variant of IsBlank: the string is not trimmed
IsBlankNoTrim(s) == s = <<>>

\* !reason.trim(): the trimmed string is empty (falsy)
IsBlank(s) == trim(s) = <<>>

(***************************************************************************)
(* Backend (the service behind src/src/api/client.ts): the records it      *)
(* holds and the answers of its endpoints.  The id of a record is its      *)
(* index in db.                                                            *)
(***************************************************************************)
DbBudget(d, i) ==
  [id |-> i, venueId |-> d.budgets[i].venueId, status |-> d.budgets[i].status]

\* GET /budgets/{tenant}/venue/{venueId}[?status], newest first
getBudgets(d, v, status) ==
  LET all == [i \in 1..Len(d.budgets) |-> DbBudget(d, i)]
      Keep(b) == b.venueId = v /\ (status = "all" \/ b.status = status)
  IN Reverse(SelectSeq(all, Keep))

\* GET /budgets/{tenant}/{id}/versions: one version per edit or confirm
getBudgetVersions(d, id) ==
  LET n == IF d.budgets[id].status = "draft" THEN 1 ELSE 2
  IN [k \in 1..n |-> [budgetId |-> id, version |-> n + 1 - k]]

\* POST /budgets/{tenant}/venue/{venueId}: a new draft
DbCreateBudget(d, v) ==
  [d EXCEPT !.budgets = Append(@, [venueId |-> v, status |-> "draft"])]

\* POST /budgets/{tenant}/{id}/confirm: the budget becomes confirmed and the
\* venue's previously confirmed budget becomes superseded
DbConfirmBudget(d, id) ==
  [d EXCEPT !.budgets =
     [i \in 1..Len(@) |->
        IF i = id THEN [@[i] EXCEPT !.status = "confirmed"]
        ELSE IF @[i].venueId = @[id].venueId /\ @[i].status = "confirmed"
             THEN [@[i] EXCEPT !.status = "superseded"]
             ELSE @[i]]]

DbLabourPlan(d, i) ==
  [id |-> i, venueId |-> d.labourPlans[i].venueId, status |-> d.labourPlans[i].status]

\* GET /labour-plans/{tenant}/venue/{venueId}[?status], newest first
getLabourPlans(d, v, status) ==
  LET all == [i \in 1..Len(d.labourPlans) |-> DbLabourPlan(d, i)]
      Keep(p) == p.venueId = v /\ (status = "all" \/ p.status = status)
  IN Reverse(SelectSeq(all, Keep))

\* GET /labour-plans/{tenant}/{id}/versions: one version per edit or confirm
getLabourPlanVersions(d, id) ==
  LET n == IF d.labourPlans[id].status = "draft" THEN 1 ELSE 2
  IN [k \in 1..n |-> [labourPlanId |-> id, version |-> n + 1 - k]]

\* POST /labour-plans/{tenant}/venue/{venueId}: a new draft
DbCreateLabourPlan(d, v) ==
  [d EXCEPT !.labourPlans = Append(@, [venueId |-> v, status |-> "draft"])]

\* POST /labour-plans/{tenant}/{id}/confirm: the plan becomes confirmed and the
\* venue's previously confirmed plan becomes superseded
DbConfirmLabourPlan(d, id) ==
  [d EXCEPT !.labourPlans =
     [i \in 1..Len(@) |->
        IF i = id THEN [@[i] EXCEPT !.status = "confirmed"]
        ELSE IF @[i].venueId = @[id].venueId /\ @[i].status = "confirmed"
             THEN [@[i] EXCEPT !.status = "superseded"]
             ELSE @[i]]]

DbSnapshot(d, i) ==
  [id |-> i, venueId |-> d.snapshots[i].venueId,
   weekStartDate |-> d.snapshots[i].weekStartDate,
   isCorrection |-> d.snapshots[i].isCorrection,
   correctsSnapshotId |-> d.snapshots[i].correctsSnapshotId]

\* GET /cash-snapshots/{tenant}/venue/{venueId}, newest first
getCashSnapshots(d, v) ==
  LET all == [i \in 1..Len(d.snapshots) |-> DbSnapshot(d, i)]
      Keep(x) == x.venueId = v
  IN Reverse(SelectSeq(all, Keep))

\* GET /cash-snapshots/{tenant}/venue/{venueId}/week/{week}/history
getCashSnapshotHistory(d, v, w) ==
  LET all == [i \in 1..Len(d.snapshots) |-> DbSnapshot(d, i)]
      Keep(x) == x.venueId = v /\ x.weekStartDate = w
  IN Reverse(SelectSeq(all, Keep))

\* POST /cash-snapshots/{tenant}/venue/{venueId} with weekStartDate w
DbCreateCashSnapshot(d, v, w) ==
  [d EXCEPT !.snapshots =
     Append(@, [venueId |-> v, weekStartDate |-> w, isCorrection |-> FALSE,
                correctsSnapshotId |-> 0])]

\* POST /cash-snapshots/{tenant}/{id}/correct with weekStartDate w: a new
\* record that references the original; the original is not touched
DbCreateCorrectionSnapshot(d, id, w) ==
  [d EXCEPT !.snapshots =
     Append(@, [venueId |-> @[id].venueId, weekStartDate |-> w,
                isCorrection |-> TRUE, correctsSnapshotId |-> id])]

DbEvidence(d, i) ==
  [id |-> i, venueId |-> d.evidence[i].venueId, source |-> d.evidence[i].source]

DbCandidate(d, i) ==
  [id |-> i, evidenceId |-> d.candidates[i].evidenceId,
   status |-> d.candidates[i].status]

\* GET /evidence/{tenant}/venue/{venueId}[?source], newest first
getEvidenceByVenue(d, v, source) ==
  LET all == [i \in 1..Len(d.evidence) |-> DbEvidence(d, i)]
      Keep(x) == x.venueId = v /\ (source = "all" \/ x.source = source)
  IN Reverse(SelectSeq(all, Keep))

\* GET /evidence/{tenant}/{id}/candidates
getCandidatesByEvidence(d, id) ==
  LET all == [i \in 1..Len(d.candidates) |-> DbCandidate(d, i)]
      Keep(x) == x.evidenceId = id
  IN Reverse(SelectSeq(all, Keep))

\* GET /evidence/{tenant}/candidates/pending
getPendingCandidates(d) ==
  LET all == [i \in 1..Len(d.candidates) |-> DbCandidate(d, i)]
      Keep(x) == x.status = "pending"
  IN Reverse(SelectSeq(all, Keep))

\* POST /evidence/{tenant}/venue/{venueId}/upload
DbUploadEvidence(d, v, source) ==
  [d EXCEPT !.evidence = Append(@, [venueId |-> v, source |-> source])]

\* POST /evidence/{tenant}/{id}/extract: a new pending candidate
DbExtractFromEvidence(d, id) ==
  [d EXCEPT !.candidates = Append(@, [evidenceId |-> id, status |-> "pending"])]

\* POST /evidence/{tenant}/candidate/{id}/confirm|reject
DbReviewCandidate(d, id, status) ==
  [d EXCEPT !.candidates[id].status = status]

\* the backend as the run finds it
InitDb ==
  [budgets |-> <<[venueId |-> "v1", status |-> "confirmed"],
                 [venueId |-> "v1", status |-> "draft"]>>,
   labourPlans |-> <<[venueId |-> "v1", status |-> "confirmed"],
                     [venueId |-> "v1", status |-> "draft"]>>,
   snapshots |-> <<[venueId |-> "v1", weekStartDate |-> "w1",
                    isCorrection |-> FALSE, correctsSnapshotId |-> 0]>>,
   evidence |-> <<[venueId |-> "v1", source |-> "rota"],
                  [venueId |-> "v1", source |-> "other"]>>,
   candidates |-> <<[evidenceId |-> 1, status |-> "pending"]>>]

\* GET /monday-briefs/{tenant}/venue/{venueId}/week?weekStartDate: the brief
\* of that venue and week, null on a 404
getMondayBrief(v, w) ==
  IF v = "v1" THEN Some([venueId |-> v, weekStartDate |-> w]) ELSE None

\* GET /variances/{tenant}/venue/{venueId}
getVariances(v) == <<[venueId |-> v]>>

\* GET /guardian/{tenant}/venue/{venueId}[?weekStartDate]
getGuardianFindings(v, w) ==
  IF w = NoParam
  THEN <<[venueId |-> v, weekStartDate |-> "w2"], [venueId |-> v, weekStartDate |-> "w1"]>>
  ELSE <<[venueId |-> v, weekStartDate |-> w]>>

(***************************************************************************)
(* What the pages share                                                    *)
(***************************************************************************)
\* the names of the async functions that write to the backend
WriteFns ==
  {"handleCreateBudget", "handleConfirmBudget",
   "handleCreateLabourPlan", "handleConfirmLabourPlan",
   "handleCreateSnapshot", "handleSubmitCorrection",
   "handleUpload", "handleExtract", "handleConfirm", "handleReject"}

\* the calls of write handlers that are suspended at an await
WriteTasks == {i \in 1..Len(tasks) : tasks[i].fn \in WriteFns}

CanSpawn(n) == Len(tasks) + n <= MaxTasks

\* the useState variables of a page that hold fetched lists and selections
ListFields(r) ==
  CASE r = "budget" -> {"budgets", "selectedBudget", "versions"}
    [] r = "labour" -> {"labourPlans", "selectedPlan", "versions"}
    [] r = "cash" -> {"snapshots", "weekHistory"}
    [] r = "evidence" -> {"evidenceList", "selectedEvidence", "candidates",
                          "pendingCandidates"}
    [] r = "brief" -> {"brief"}
    [] r = "variance" -> {"variances"}
    [] r = "findings" -> {"findings"}

Lists(r, s) == [f \in ListFields(r) |-> s[f]]

\* base is the page's lists and selections as they would be had the write
\* handler now running assigned none of them: an assignment made outside a
\* write handler (to the fields F) is copied, a write handler's own steps
\* leave base alone, and base is brought level when the handler returns
Track(F) ==
  base' = [f \in DOMAIN base |-> IF f \in F THEN st'[f] ELSE base[f]]

KeepBase == base' = base

SyncBase == base' = Lists(route, st')

Spawn(ts) == tasks' = tasks \o ts

Drop(i) == tasks' = RemoveAt(tasks, i)

\* one more action of the user
User == events < MaxEvents /\ events' = events + 1

\* if (!venueId) return <prompt>: the page's controls exist
Rendered == venueId # NoParam

\* an effect that does nothing
NoEffect(s) == [st |-> s, spawn |-> <<>>]

(***************************************************************************)
(* Budget page (src/src/pages/BudgetWorkflowPage.tsx)                      *)
(***************************************************************************)
BudgetInit ==
  [budgets |-> <<>>, selectedBudget |-> None, versions |-> <<>>,
   loading |-> FALSE, error |-> NullError, statusFilter |-> "all",
   showCreateForm |-> FALSE, submitting |-> FALSE]

\* the effect of lines 63-85, run with venue v on page state s
loadBudgets(s, v) ==
  IF v = NoParam
  THEN [st |-> [s EXCEPT !.budgets = <<>>], spawn |-> <<>>]
  ELSE [st |-> [s EXCEPT !.loading = TRUE, !.error = NullError],
        spawn |-> <<[fn |-> "loadBudgets", venueId |-> v, status |-> s.statusFilter]>>]

\* a faulty variant of loadBudgetsOk: the answer to a superseded request is
\* discarded ("most recent request wins")
loadBudgetsOkIfCurrent(i) ==
  /\ tasks[i].fn = "loadBudgets"
  /\ st' = IF tasks[i].venueId = venueId /\ tasks[i].status = st.statusFilter
           THEN [st EXCEPT !.budgets = getBudgets(db, tasks[i].venueId, tasks[i].status),
                           !.loading = FALSE]
           ELSE [st EXCEPT !.loading = FALSE]
  /\ Drop(i) /\ Track({"budgets"})
  /\ UNCHANGED <<route, venueId, week, db, events>>

\* lines 75-76, 79-81: getBudgets resolved
loadBudgetsOk(i) ==
  /\ tasks[i].fn = "loadBudgets"
  /\ st' = [st EXCEPT !.budgets = getBudgets(db, tasks[i].venueId, tasks[i].status),
                      !.loading = FALSE]
  /\ Drop(i) /\ Track({"budgets"})
  /\ UNCHANGED <<route, venueId, week, db, events>>

\* lines 77-81: getBudgets rejected
loadBudgetsFail(i, m) ==
  /\ tasks[i].fn = "loadBudgets"
  /\ st' = [st EXCEPT !.error = m, !.loading = FALSE]
  /\ Drop(i) /\ Track({})
  /\ UNCHANGED <<route, venueId, week, db, events>>

\* the effect of lines 88-104, run when selectedBudget has become sel
Budget_loadVersions(s, sel) ==
  IF sel = None
  THEN [st |-> [s EXCEPT !.versions = <<>>], spawn |-> <<>>]
  ELSE [st |-> s, spawn |-> <<[fn |-> "Budget_loadVersions", budgetId |-> sel[1].id]>>]

\* lines 96-97: getBudgetVersions resolved
Budget_loadVersionsOk(i) ==
  /\ tasks[i].fn = "Budget_loadVersions"
  /\ st' = [st EXCEPT !.versions = getBudgetVersions(db, tasks[i].budgetId)]
  /\ Drop(i) /\ Track({"versions"})
  /\ UNCHANGED <<route, venueId, week, db, events>>

\* lines 98-100: getBudgetVersions rejected; console.error only
Budget_loadVersionsFail(i) ==
  /\ tasks[i].fn = "Budget_loadVersions"
  /\ Drop(i)
  /\ UNCHANGED <<route, venueId, week, db, st, base, events>>

\* onChange of the status filter (line 305); the list effect re-runs
Budget_setStatusFilter(f) ==
  /\ User
  /\ route = "budget" /\ Rendered /\ f # st.statusFilter
  /\ LET e == loadBudgets([st EXCEPT !.statusFilter = f], venueId)
     IN /\ CanSpawn(Len(e.spawn))
        /\ st' = e.st /\ Spawn(e.spawn)
  /\ Track({})
  /\ UNCHANGED <<route, venueId, week, db>>

\* "Create Draft Budget" (lines 173-179) and Cancel (line 291)
Budget_setShowCreateForm(b) ==
  /\ User
  /\ route = "budget" /\ Rendered
  /\ IF b THEN ~st.showCreateForm ELSE st.showCreateForm
  /\ st' = [st EXCEPT !.showCreateForm = b]
  /\ UNCHANGED <<route, venueId, week, db, tasks, base>>

\* BudgetCard onClick (lines 329, 393): cards exist while the list is shown;
\* selecting the selected object again re-renders nothing
Budget_onSelect(k) ==
  /\ User
  /\ route = "budget" /\ Rendered /\ ~st.loading
  /\ k \in 1..Len(st.budgets)
  /\ st.selectedBudget # Some(st.budgets[k])
  /\ LET e == Budget_loadVersions([st EXCEPT !.selectedBudget = Some(st.budgets[k])],
                                   Some(st.budgets[k]))
     IN /\ CanSpawn(Len(e.spawn))
        /\ st' = e.st /\ Spawn(e.spawn)
  /\ Track({"selectedBudget"})
  /\ UNCHANGED <<route, venueId, week, db>>

\* disabled attribute of "Create Draft" (line 285)
CreateBudgetDisabled == st.submitting

\* "Create Draft" clicked: lines 106-113, up to the await of createBudget
handleCreateBudget ==
  /\ User
  /\ route = "budget" /\ Rendered
  /\ st.showCreateForm /\ ~CreateBudgetDisabled
  /\ venueId # NoParam
  /\ CanSpawn(1)
  /\ st' = [st EXCEPT !.submitting = TRUE, !.error = NullError]
  /\ Spawn(<<[fn |-> "handleCreateBudget", pc |-> "createBudget",
              venueId |-> venueId, budgets |-> st.budgets]>>)
  /\ KeepBase
  /\ UNCHANGED <<route, venueId, week, db>>

\* a faulty variant of PrependBudget: the new record is put last
AppendBudget(new, budgets) == budgets \o <<new>>

\* line 114: setBudgets([result.budget, ...budgets]) with the budgets of the
\* render the handler was started in
PrependBudget(new, budgets) == <<new>> \o budgets

\* lines 114-124 and 127-129: createBudget resolved
handleCreateBudgetOk(i) ==
  /\ tasks[i].fn = "handleCreateBudget"
  /\ Len(db.budgets) < MaxRecords
  /\ db' = DbCreateBudget(db, tasks[i].venueId)
  /\ st' = [st EXCEPT !.budgets = PrependBudget(DbBudget(db', Len(db'.budgets)),
                                                tasks[i].budgets),
                      !.showCreateForm = FALSE,
                      !.submitting = FALSE]
  /\ Drop(i) /\ SyncBase
  /\ UNCHANGED <<route, venueId, week, events>>

\* a faulty variant of handleCreateBudgetFail: there is no finally block, so
\* a rejected createBudget leaves submitting set
handleCreateBudgetFailNoFinally(i, m) ==
  /\ tasks[i].fn = "handleCreateBudget"
  /\ st' = [st EXCEPT !.error = m]
  /\ Drop(i) /\ SyncBase
  /\ UNCHANGED <<route, venueId, week, db, events>>

\* lines 125-129: createBudget rejected
handleCreateBudgetFail(i, m) ==
  /\ tasks[i].fn = "handleCreateBudget"
  /\ st' = [st EXCEPT !.error = m, !.submitting = FALSE]
  /\ Drop(i) /\ SyncBase
  /\ UNCHANGED <<route, venueId, week, db, events>>

\* a faulty variant of ConfirmBudgetDisabled: the control ignores submitting
ConfirmBudgetNeverDisabled == FALSE

\* disabled attribute of "Confirm Budget" (line 427)
ConfirmBudgetDisabled == st.submitting

\* a faulty variant of handleConfirmBudget: the request carries the selected
\* budget, not the budget of the card that was clicked
handleConfirmSelectedBudget(k) ==
  /\ User
  /\ route = "budget" /\ Rendered /\ ~st.loading
  /\ k \in 1..Len(st.budgets)
  /\ st.budgets[k].status = "draft" /\ ~st.submitting
  /\ CanSpawn(1)
  /\ st' = [st EXCEPT !.submitting = TRUE, !.error = NullError]
  /\ Spawn(<<[fn |-> "handleConfirmBudget", pc |-> "confirmBudget",
              budget |-> IF st.selectedBudget # None THEN st.selectedBudget[1]
                         ELSE st.budgets[k],
              venueId |-> venueId, statusFilter |-> st.statusFilter]>>)
  /\ KeepBase
  /\ UNCHANGED <<route, venueId, week, db>>

\* "Confirm Budget" of the k-th card clicked (lines 330, 421-432): lines
\* 132-142, up to the await of confirmBudget
handleConfirmBudget(k) ==
  /\ User
  /\ route = "budget" /\ Rendered /\ ~st.loading
  /\ k \in 1..Len(st.budgets)
  /\ st.budgets[k].status = "draft" /\ ~ConfirmBudgetDisabled
  /\ CanSpawn(1)
  /\ st' = [st EXCEPT !.submitting = TRUE, !.error = NullError]
  /\ Spawn(<<[fn |-> "handleConfirmBudget", pc |-> "confirmBudget",
              budget |-> st.budgets[k], venueId |-> venueId,
              statusFilter |-> st.statusFilter]>>)
  /\ KeepBase
  /\ UNCHANGED <<route, venueId, week, db>>

\* confirmBudget resolved; the handler goes on to await getBudgets (line 145)
handleConfirmBudgetConfirmed(i) ==
  /\ tasks[i].fn = "handleConfirmBudget" /\ tasks[i].pc = "confirmBudget"
  /\ db.budgets[tasks[i].budget.id].status = "draft"
  /\ db' = DbConfirmBudget(db, tasks[i].budget.id)
  /\ tasks' = [tasks EXCEPT ![i] =
                 [fn |-> "handleConfirmBudget", pc |-> "getBudgets",
                  budget |-> @.budget, venueId |-> @.venueId,
                  statusFilter |-> @.statusFilter,
                  result |-> DbBudget(db', @.budget.id)]]
  /\ KeepBase
  /\ UNCHANGED <<route, venueId, week, st, events>>

\* a faulty variant of handleConfirmBudgetOk: the list is patched locally
\* with the returned record instead of being taken from the re-fetch
handleConfirmBudgetPatch(i) ==
  /\ tasks[i].fn = "handleConfirmBudget" /\ tasks[i].pc = "getBudgets"
  /\ LET s1 == [st EXCEPT !.budgets =
                   [k \in 1..Len(st.budgets) |->
                      IF st.budgets[k].id = tasks[i].result.id THEN tasks[i].result
                      ELSE st.budgets[k]],
                          !.selectedBudget = Some(tasks[i].result),
                          !.submitting = FALSE]
         e == Budget_loadVersions(s1, Some(tasks[i].result))
     IN /\ st' = e.st
        /\ tasks' = RemoveAt(tasks, i) \o e.spawn
  /\ SyncBase
  /\ UNCHANGED <<route, venueId, week, db, events>>

\* lines 146-147 and 150-152: the re-fetch resolved; the new selection
\* re-runs the versions effect
handleConfirmBudgetOk(i) ==
  /\ tasks[i].fn = "handleConfirmBudget" /\ tasks[i].pc = "getBudgets"
  /\ LET s1 == [st EXCEPT !.budgets = getBudgets(db, tasks[i].venueId,
                                                 tasks[i].statusFilter),
                          !.selectedBudget = Some(tasks[i].result),
                          !.submitting = FALSE]
         e == Budget_loadVersions(s1, Some(tasks[i].result))
     IN /\ st' = e.st
        /\ tasks' = RemoveAt(tasks, i) \o e.spawn
  /\ SyncBase
  /\ UNCHANGED <<route, venueId, week, db, events>>

\* lines 148-152: confirmBudget or the re-fetch rejected
handleConfirmBudgetFail(i, m) ==
  /\ tasks[i].fn = "handleConfirmBudget"
  /\ st' = [st EXCEPT !.error = m, !.submitting = FALSE]
  /\ Drop(i) /\ SyncBase
  /\ UNCHANGED <<route, venueId, week, db, events>>


BudgetUser ==
  \/ \E f \in StatusFilters : Budget_setStatusFilter(f)
  \/ \E b \in BOOLEAN : Budget_setShowCreateForm(b)
  \/ \E k \in 1..Len(st.budgets) : Budget_onSelect(k)
  \/ handleCreateBudget
  \/ \E k \in 1..Len(st.budgets) : handleConfirmBudget(k)

BudgetSettle(i) ==
  \/ loadBudgetsOk(i)
  \/ \E m \in Msgs : loadBudgetsFail(i, m)
  \/ Budget_loadVersionsOk(i)
  \/ Budget_loadVersionsFail(i)
  \/ handleCreateBudgetOk(i)
  \/ \E m \in Msgs : handleCreateBudgetFail(i, m)
  \/ handleConfirmBudgetConfirmed(i)
  \/ handleConfirmBudgetOk(i)
  \/ \E m \in Msgs : handleConfirmBudgetFail(i, m)

(***************************************************************************)
(* Labour page (src/src/pages/LabourWorkflowPage.tsx)                      *)
(***************************************************************************)
LabourInit ==
  [labourPlans |-> <<>>, selectedPlan |-> None, versions |-> <<>>,
   loading |-> FALSE, error |-> NullError, statusFilter |-> "all",
   showCreateForm |-> FALSE, submitting |-> FALSE]

\* the effect of lines 70-92, run with venue v on page state s
loadLabourPlans(s, v) ==
  IF v = NoParam
  THEN [st |-> [s EXCEPT !.labourPlans = <<>>], spawn |-> <<>>]
  ELSE [st |-> [s EXCEPT !.loading = TRUE, !.error = NullError],
        spawn |-> <<[fn |-> "loadLabourPlans", venueId |-> v, status |-> s.statusFilter]>>]

\* lines 82-83, 86-88: getLabourPlans resolved
loadLabourPlansOk(i) ==
  /\ tasks[i].fn = "loadLabourPlans"
  /\ st' = [st EXCEPT !.labourPlans = getLabourPlans(db, tasks[i].venueId, tasks[i].status),
                      !.loading = FALSE]
  /\ Drop(i) /\ Track({"labourPlans"})
  /\ UNCHANGED <<route, venueId, week, db, events>>

\* lines 84-88: getLabourPlans rejected
loadLabourPlansFail(i, m) ==
  /\ tasks[i].fn = "loadLabourPlans"
  /\ st' = [st EXCEPT !.error = m, !.loading = FALSE]
  /\ Drop(i) /\ Track({})
  /\ UNCHANGED <<route, venueId, week, db, events>>

\* the effect of lines 95-111, run when selectedPlan has become sel
Labour_loadVersions(s, sel) ==
  IF sel = None
  THEN [st |-> [s EXCEPT !.versions = <<>>], spawn |-> <<>>]
  ELSE [st |-> s, spawn |-> <<[fn |-> "Labour_loadVersions", labourPlanId |-> sel[1].id]>>]

\* lines 103-104: getLabourPlanVersions resolved
Labour_loadVersionsOk(i) ==
  /\ tasks[i].fn = "Labour_loadVersions"
  /\ st' = [st EXCEPT !.versions = getLabourPlanVersions(db, tasks[i].labourPlanId)]
  /\ Drop(i) /\ Track({"versions"})
  /\ UNCHANGED <<route, venueId, week, db, events>>

\* lines 105-107: getLabourPlanVersions rejected; console.error only
Labour_loadVersionsFail(i) ==
  /\ tasks[i].fn = "Labour_loadVersions"
  /\ Drop(i)
  /\ UNCHANGED <<route, venueId, week, db, st, base, events>>

\* onChange of the status filter (line 419); the list effect re-runs
Labour_setStatusFilter(f) ==
  /\ User
  /\ route = "labour" /\ Rendered /\ f # st.statusFilter
  /\ LET e == loadLabourPlans([st EXCEPT !.statusFilter = f], venueId)
     IN /\ CanSpawn(Len(e.spawn))
        /\ st' = e.st /\ Spawn(e.spawn)
  /\ Track({})
  /\ UNCHANGED <<route, venueId, week, db>>

\* "Create Draft Labour Plan" (lines 211-217) and Cancel (line 405)
Labour_setShowCreateForm(b) ==
  /\ User
  /\ route = "labour" /\ Rendered
  /\ IF b THEN ~st.showCreateForm ELSE st.showCreateForm
  /\ st' = [st EXCEPT !.showCreateForm = b]
  /\ UNCHANGED <<route, venueId, week, db, tasks, base>>

\* LabourPlanCard onClick (lines 445, 509): cards exist while the list is shown;
\* selecting the selected object again re-renders nothing
Labour_onSelect(k) ==
  /\ User
  /\ route = "labour" /\ Rendered /\ ~st.loading
  /\ k \in 1..Len(st.labourPlans)
  /\ st.selectedPlan # Some(st.labourPlans[k])
  /\ LET e == Labour_loadVersions([st EXCEPT !.selectedPlan = Some(st.labourPlans[k])],
                                   Some(st.labourPlans[k]))
     IN /\ CanSpawn(Len(e.spawn))
        /\ st' = e.st /\ Spawn(e.spawn)
  /\ Track({"selectedPlan"})
  /\ UNCHANGED <<route, venueId, week, db>>

\* disabled attribute of "Create Draft" (line 399)
CreateLabourPlanDisabled == st.submitting

\* "Create Draft" clicked: lines 136-148, up to the await of createLabourPlan
handleCreateLabourPlan ==
  /\ User
  /\ route = "labour" /\ Rendered
  /\ st.showCreateForm /\ ~CreateLabourPlanDisabled
  /\ venueId # NoParam
  /\ CanSpawn(1)
  /\ st' = [st EXCEPT !.submitting = TRUE, !.error = NullError]
  /\ Spawn(<<[fn |-> "handleCreateLabourPlan", pc |-> "createLabourPlan",
              venueId |-> venueId, labourPlans |-> st.labourPlans]>>)
  /\ KeepBase
  /\ UNCHANGED <<route, venueId, week, db>>

\* line 149: setLabourPlans([result.labourPlan, ...labourPlans]) with the labourPlans of the
\* render the handler was started in
PrependLabourPlan(new, labourPlans) == <<new>> \o labourPlans

\* lines 149-160 and 163-165: createLabourPlan resolved
handleCreateLabourPlanOk(i) ==
  /\ tasks[i].fn = "handleCreateLabourPlan"
  /\ Len(db.labourPlans) < MaxRecords
  /\ db' = DbCreateLabourPlan(db, tasks[i].venueId)
  /\ st' = [st EXCEPT !.labourPlans = PrependLabourPlan(DbLabourPlan(db', Len(db'.labourPlans)),
                                                tasks[i].labourPlans),
                      !.showCreateForm = FALSE,
                      !.submitting = FALSE]
  /\ Drop(i) /\ SyncBase
  /\ UNCHANGED <<route, venueId, week, events>>

\* lines 161-165: createLabourPlan rejected
handleCreateLabourPlanFail(i, m) ==
  /\ tasks[i].fn = "handleCreateLabourPlan"
  /\ st' = [st EXCEPT !.error = m, !.submitting = FALSE]
  /\ Drop(i) /\ SyncBase
  /\ UNCHANGED <<route, venueId, week, db, events>>

\* disabled attribute of "Confirm Plan" (line 543)
ConfirmLabourPlanDisabled == st.submitting

\* "Confirm Plan" of the k-th card clicked (lines 446, 537-548): lines
\* 168-178, up to the await of confirmLabourPlan
handleConfirmLabourPlan(k) ==
  /\ User
  /\ route = "labour" /\ Rendered /\ ~st.loading
  /\ k \in 1..Len(st.labourPlans)
  /\ st.labourPlans[k].status = "draft" /\ ~ConfirmLabourPlanDisabled
  /\ CanSpawn(1)
  /\ st' = [st EXCEPT !.submitting = TRUE, !.error = NullError]
  /\ Spawn(<<[fn |-> "handleConfirmLabourPlan", pc |-> "confirmLabourPlan",
              plan |-> st.labourPlans[k], venueId |-> venueId,
              statusFilter |-> st.statusFilter]>>)
  /\ KeepBase
  /\ UNCHANGED <<route, venueId, week, db>>

\* confirmLabourPlan resolved; the handler goes on to await getLabourPlans (line 181)
handleConfirmLabourPlanConfirmed(i) ==
  /\ tasks[i].fn = "handleConfirmLabourPlan" /\ tasks[i].pc = "confirmLabourPlan"
  /\ db.labourPlans[tasks[i].plan.id].status = "draft"
  /\ db' = DbConfirmLabourPlan(db, tasks[i].plan.id)
  /\ tasks' = [tasks EXCEPT ![i] =
                 [fn |-> "handleConfirmLabourPlan", pc |-> "getLabourPlans",
                  plan |-> @.plan, venueId |-> @.venueId,
                  statusFilter |-> @.statusFilter,
                  result |-> DbLabourPlan(db', @.plan.id)]]
  /\ KeepBase
  /\ UNCHANGED <<route, venueId, week, st, events>>

\* lines 182-183 and 186-188: the re-fetch resolved; the new selection
\* re-runs the versions effect
handleConfirmLabourPlanOk(i) ==
  /\ tasks[i].fn = "handleConfirmLabourPlan" /\ tasks[i].pc = "getLabourPlans"
  /\ LET s1 == [st EXCEPT !.labourPlans = getLabourPlans(db, tasks[i].venueId,
                                                 tasks[i].statusFilter),
                          !.selectedPlan = Some(tasks[i].result),
                          !.submitting = FALSE]
         e == Labour_loadVersions(s1, Some(tasks[i].result))
     IN /\ st' = e.st
        /\ tasks' = RemoveAt(tasks, i) \o e.spawn
  /\ SyncBase
  /\ UNCHANGED <<route, venueId, week, db, events>>

\* lines 184-188: confirmLabourPlan or the re-fetch rejected
handleConfirmLabourPlanFail(i, m) ==
  /\ tasks[i].fn = "handleConfirmLabourPlan"
  /\ st' = [st EXCEPT !.error = m, !.submitting = FALSE]
  /\ Drop(i) /\ SyncBase
  /\ UNCHANGED <<route, venueId, week, db, events>>


LabourUser ==
  \/ \E f \in StatusFilters : Labour_setStatusFilter(f)
  \/ \E b \in BOOLEAN : Labour_setShowCreateForm(b)
  \/ \E k \in 1..Len(st.labourPlans) : Labour_onSelect(k)
  \/ handleCreateLabourPlan
  \/ \E k \in 1..Len(st.labourPlans) : handleConfirmLabourPlan(k)

LabourSettle(i) ==
  \/ loadLabourPlansOk(i)
  \/ \E m \in Msgs : loadLabourPlansFail(i, m)
  \/ Labour_loadVersionsOk(i)
  \/ Labour_loadVersionsFail(i)
  \/ handleCreateLabourPlanOk(i)
  \/ \E m \in Msgs : handleCreateLabourPlanFail(i, m)
  \/ handleConfirmLabourPlanConfirmed(i)
  \/ handleConfirmLabourPlanOk(i)
  \/ \E m \in Msgs : handleConfirmLabourPlanFail(i, m)

(***************************************************************************)
(* Cash page (src/src/pages/CashWorkflowPage.tsx)                          *)
(***************************************************************************)
CashInit ==
  [snapshots |-> <<>>, weekHistory |-> <<>>, loading |-> FALSE,
   error |-> NullError, showCreateForm |-> FALSE, submitting |-> FALSE,
   showCorrectionForm |-> FALSE, correctionTarget |-> None,
   correctionReason |-> <<>>]

\* lines 38-44: the Monday of the current week
getCurrentWeekStart == "w1"

\* line 49: searchParams.get("week") || getCurrentWeekStart()
Cash_selectedWeek(w) == IF w = NoParam THEN getCurrentWeekStart ELSE w

\* the effect of lines 78-99, run with venue v
loadSnapshots(s, v) ==
  IF v = NoParam
  THEN [st |-> [s EXCEPT !.snapshots = <<>>], spawn |-> <<>>]
  ELSE [st |-> [s EXCEPT !.loading = TRUE, !.error = NullError],
        spawn |-> <<[fn |-> "loadSnapshots", venueId |-> v]>>]

\* lines 89-90, 93-95: getCashSnapshots resolved
loadSnapshotsOk(i) ==
  /\ tasks[i].fn = "loadSnapshots"
  /\ st' = [st EXCEPT !.snapshots = getCashSnapshots(db, tasks[i].venueId),
                      !.loading = FALSE]
  /\ Drop(i) /\ Track({"snapshots"})
  /\ UNCHANGED <<route, venueId, week, db, events>>

\* lines 91-95: getCashSnapshots rejected
loadSnapshotsFail(i, m) ==
  /\ tasks[i].fn = "loadSnapshots"
  /\ st' = [st EXCEPT !.error = m, !.loading = FALSE]
  /\ Drop(i) /\ Track({})
  /\ UNCHANGED <<route, venueId, week, db, events>>

\* the effect of lines 102-119, run with venue v and selected week w
loadWeekHistory(s, v, w) ==
  IF v = NoParam \/ w = NoParam
  THEN [st |-> [s EXCEPT !.weekHistory = <<>>], spawn |-> <<>>]
  ELSE [st |-> s,
        spawn |-> <<[fn |-> "loadWeekHistory", venueId |-> v, selectedWeek |-> w]>>]

\* lines 110-111: getCashSnapshotHistory resolved
loadWeekHistoryOk(i) ==
  /\ tasks[i].fn = "loadWeekHistory"
  /\ st' = [st EXCEPT !.weekHistory =
              getCashSnapshotHistory(db, tasks[i].venueId, tasks[i].selectedWeek)]
  /\ Drop(i) /\ Track({"weekHistory"})
  /\ UNCHANGED <<route, venueId, week, db, events>>

\* lines 112-115: getCashSnapshotHistory rejected
loadWeekHistoryFail(i) ==
  /\ tasks[i].fn = "loadWeekHistory"
  /\ st' = [st EXCEPT !.weekHistory = <<>>]
  /\ Drop(i) /\ Track({"weekHistory"})
  /\ UNCHANGED <<route, venueId, week, db, events>>

\* "Enter Cash Snapshot" (lines 202-208) and Cancel (line 269)
Cash_setShowCreateForm(b) ==
  /\ User
  /\ route = "cash" /\ Rendered
  /\ IF b THEN ~(st.showCreateForm \/ st.showCorrectionForm) ELSE st.showCreateForm
  /\ st' = [st EXCEPT !.showCreateForm = b]
  /\ UNCHANGED <<route, venueId, week, db, tasks, base>>

\* disabled attribute of "Save Snapshot" (line 263)
CreateSnapshotDisabled == st.submitting

\* "Save Snapshot" clicked: lines 121-134, up to the await
handleCreateSnapshot ==
  /\ User
  /\ route = "cash" /\ Rendered
  /\ st.showCreateForm /\ ~CreateSnapshotDisabled
  /\ venueId # NoParam
  /\ CanSpawn(1)
  /\ st' = [st EXCEPT !.submitting = TRUE, !.error = NullError]
  /\ Spawn(<<[fn |-> "handleCreateSnapshot", venueId |-> venueId,
              selectedWeek |-> Cash_selectedWeek(week),
              snapshots |-> st.snapshots, weekHistory |-> st.weekHistory]>>)
  /\ KeepBase
  /\ UNCHANGED <<route, venueId, week, db>>

\* lines 135-136 and 172-173: [result.snapshot, ...list] with the list of the
\* render the handler was started in
PrependSnapshot(new, list) == <<new>> \o list

\* lines 135-138 and 141-143: createCashSnapshot resolved
handleCreateSnapshotOk(i) ==
  /\ tasks[i].fn = "handleCreateSnapshot"
  /\ Len(db.snapshots) < MaxRecords
  /\ db' = DbCreateCashSnapshot(db, tasks[i].venueId, tasks[i].selectedWeek)
  /\ LET new == DbSnapshot(db', Len(db'.snapshots))
     IN st' = [st EXCEPT !.snapshots = PrependSnapshot(new, tasks[i].snapshots),
                         !.weekHistory = PrependSnapshot(new, tasks[i].weekHistory),
                         !.showCreateForm = FALSE,
                         !.submitting = FALSE]
  /\ Drop(i) /\ SyncBase
  /\ UNCHANGED <<route, venueId, week, events>>

\* lines 139-143: createCashSnapshot rejected
handleCreateSnapshotFail(i, m) ==
  /\ tasks[i].fn = "handleCreateSnapshot"
  /\ st' = [st EXCEPT !.error = m, !.submitting = FALSE]
  /\ Drop(i) /\ SyncBase
  /\ UNCHANGED <<route, venueId, week, db, events>>

\* "Submit Correction" of a SnapshotCard (lines 373-381, 483-491): the card
\* of the latest entry of the week history, unless that is a correction
handleStartCorrection(k) ==
  /\ User
  /\ route = "cash" /\ Rendered
  /\ k \in 1..Len(st.weekHistory)
  /\ k = 1 /\ ~st.weekHistory[k].isCorrection
  /\ ~(st.showCreateForm \/ st.showCorrectionForm)
  /\ st' = [st EXCEPT !.correctionTarget = Some(st.weekHistory[k]),
                      !.correctionReason = <<>>,
                      !.showCorrectionForm = TRUE]
  /\ UNCHANGED <<route, venueId, week, db, tasks, base>>

\* line 279: the correction form is rendered
CorrectionFormShown == st.showCorrectionForm /\ st.correctionTarget # None

\* onChange of the reason textarea (line 334)
setCorrectionReason(r) ==
  /\ User
  /\ route = "cash" /\ Rendered /\ CorrectionFormShown
  /\ r # st.correctionReason
  /\ st' = [st EXCEPT !.correctionReason = r]
  /\ UNCHANGED <<route, venueId, week, db, tasks, base>>

\* Cancel of the correction form (lines 349-356)
cancelCorrection ==
  /\ User
  /\ route = "cash" /\ Rendered /\ CorrectionFormShown
  /\ st' = [st EXCEPT !.showCorrectionForm = FALSE, !.correctionTarget = None]
  /\ UNCHANGED <<route, venueId, week, db, tasks, base>>

\* a faulty variant of SubmitCorrectionDisabled: the reason is not trimmed
SubmitCorrectionDisabledNoTrim == st.submitting \/ st.correctionReason = <<>>

\* disabled attribute of the form's "Submit Correction" (line 344)
SubmitCorrectionDisabled == st.submitting \/ IsBlank(st.correctionReason)

\* the form's "Submit Correction" clicked: lines 157-171, up to the await
handleSubmitCorrection ==
  /\ User
  /\ route = "cash" /\ Rendered /\ CorrectionFormShown
  /\ ~SubmitCorrectionDisabled
  /\ ~(st.correctionTarget = None \/ IsBlank(st.correctionReason))
  /\ CanSpawn(1)
  /\ st' = [st EXCEPT !.submitting = TRUE, !.error = NullError]
  /\ Spawn(<<[fn |-> "handleSubmitCorrection",
              snapshotId |-> st.correctionTarget[1].id,
              weekStartDate |-> Cash_selectedWeek(week),
              reason |-> st.correctionReason,
              snapshots |-> st.snapshots, weekHistory |-> st.weekHistory]>>)
  /\ KeepBase
  /\ UNCHANGED <<route, venueId, week, db>>

\* a faulty variant of handleSubmitCorrectionOk: the corrected snapshot is
\* overwritten with the correction instead of being kept
handleSubmitCorrectionReplace(i) ==
  /\ tasks[i].fn = "handleSubmitCorrection"
  /\ Len(db.snapshots) < MaxRecords
  /\ db' = DbCreateCorrectionSnapshot(db, tasks[i].snapshotId, tasks[i].weekStartDate)
  /\ LET new == DbSnapshot(db', Len(db'.snapshots))
         Put(list) == [k \in 1..Len(list) |->
                         IF list[k].id = tasks[i].snapshotId THEN new ELSE list[k]]
     IN st' = [st EXCEPT !.snapshots = Put(tasks[i].snapshots),
                         !.weekHistory = Put(tasks[i].weekHistory),
                         !.showCorrectionForm = FALSE,
                         !.correctionTarget = None,
                         !.correctionReason = <<>>,
                         !.submitting = FALSE]
  /\ Drop(i) /\ SyncBase
  /\ UNCHANGED <<route, venueId, week, events>>

\* lines 172-176 and 179-181: createCorrectionSnapshot resolved
handleSubmitCorrectionOk(i) ==
  /\ tasks[i].fn = "handleSubmitCorrection"
  /\ Len(db.snapshots) < MaxRecords
  /\ db' = DbCreateCorrectionSnapshot(db, tasks[i].snapshotId, tasks[i].weekStartDate)
  /\ LET new == DbSnapshot(db', Len(db'.snapshots))
     IN st' = [st EXCEPT !.snapshots = PrependSnapshot(new, tasks[i].snapshots),
                         !.weekHistory = PrependSnapshot(new, tasks[i].weekHistory),
                         !.showCorrectionForm = FALSE,
                         !.correctionTarget = None,
                         !.correctionReason = <<>>,
                         !.submitting = FALSE]
  /\ Drop(i) /\ SyncBase
  /\ UNCHANGED <<route, venueId, week, events>>

\* lines 177-181: createCorrectionSnapshot rejected
handleSubmitCorrectionFail(i, m) ==
  /\ tasks[i].fn = "handleSubmitCorrection"
  /\ st' = [st EXCEPT !.error = m, !.submitting = FALSE]
  /\ Drop(i) /\ SyncBase
  /\ UNCHANGED <<route, venueId, week, db, events>>


CashUser ==
  \/ \E b \in BOOLEAN : Cash_setShowCreateForm(b)
  \/ handleCreateSnapshot
  \/ \E k \in 1..Len(st.weekHistory) : handleStartCorrection(k)
  \/ \E r \in StringsUpTo(MaxReasonLen) : setCorrectionReason(r)
  \/ cancelCorrection
  \/ handleSubmitCorrection

CashSettle(i) ==
  \/ loadSnapshotsOk(i)
  \/ \E m \in Msgs : loadSnapshotsFail(i, m)
  \/ loadWeekHistoryOk(i)
  \/ loadWeekHistoryFail(i)
  \/ handleCreateSnapshotOk(i)
  \/ \E m \in Msgs : handleCreateSnapshotFail(i, m)
  \/ handleSubmitCorrectionOk(i)
  \/ \E m \in Msgs : handleSubmitCorrectionFail(i, m)

(***************************************************************************)
(* Evidence page (EvidenceWorkflowPage, in the second half of              *)
(* src/src/pages/LabourWorkflowPage.tsx)                                   *)
(***************************************************************************)
EvidenceInit ==
  [evidenceList |-> <<>>, selectedEvidence |-> None, candidates |-> <<>>,
   pendingCandidates |-> <<>>, loading |-> FALSE, error |-> NullError,
   sourceFilter |-> "all", showUploadForm |-> FALSE, uploadSource |-> "other",
   selectedFile |-> FALSE, submitting |-> FALSE, showRejectForm |-> FALSE,
   rejectTarget |-> None, rejectReason |-> <<>>]

\* the effect of lines 675-697, run with venue v
loadEvidence(s, v) ==
  IF v = NoParam
  THEN [st |-> [s EXCEPT !.evidenceList = <<>>], spawn |-> <<>>]
  ELSE [st |-> [s EXCEPT !.loading = TRUE, !.error = NullError],
        spawn |-> <<[fn |-> "loadEvidence", venueId |-> v, source |-> s.sourceFilter]>>]

\* lines 687-688, 691-693: getEvidenceByVenue resolved
loadEvidenceOk(i) ==
  /\ tasks[i].fn = "loadEvidence"
  /\ st' = [st EXCEPT !.evidenceList =
              getEvidenceByVenue(db, tasks[i].venueId, tasks[i].source),
                      !.loading = FALSE]
  /\ Drop(i) /\ Track({"evidenceList"})
  /\ UNCHANGED <<route, venueId, week, db, events>>

\* lines 689-693: getEvidenceByVenue rejected
loadEvidenceFail(i, m) ==
  /\ tasks[i].fn = "loadEvidence"
  /\ st' = [st EXCEPT !.error = m, !.loading = FALSE]
  /\ Drop(i) /\ Track({})
  /\ UNCHANGED <<route, venueId, week, db, events>>

\* the effect of lines 700-711, run once when the page is mounted
loadPendingCandidates == <<[fn |-> "loadPendingCandidates"]>>

\* lines 703-704: getPendingCandidates resolved
loadPendingCandidatesOk(i) ==
  /\ tasks[i].fn = "loadPendingCandidates"
  /\ st' = [st EXCEPT !.pendingCandidates = getPendingCandidates(db)]
  /\ Drop(i) /\ Track({"pendingCandidates"})
  /\ UNCHANGED <<route, venueId, week, db, events>>

\* lines 705-707: getPendingCandidates rejected; console.error only
loadPendingCandidatesFail(i) ==
  /\ tasks[i].fn = "loadPendingCandidates"
  /\ Drop(i)
  /\ UNCHANGED <<route, venueId, week, db, st, base, events>>

\* the effect of lines 714-730, run when selectedEvidence has become sel
loadCandidates(s, sel) ==
  IF sel = None
  THEN [st |-> [s EXCEPT !.candidates = <<>>], spawn |-> <<>>]
  ELSE [st |-> s, spawn |-> <<[fn |-> "loadCandidates", evidenceId |-> sel[1].id]>>]

\* lines 722-723: getCandidatesByEvidence resolved
loadCandidatesOk(i) ==
  /\ tasks[i].fn = "loadCandidates"
  /\ st' = [st EXCEPT !.candidates = getCandidatesByEvidence(db, tasks[i].evidenceId)]
  /\ Drop(i) /\ Track({"candidates"})
  /\ UNCHANGED <<route, venueId, week, db, events>>

\* lines 724-726: getCandidatesByEvidence rejected; console.error only
loadCandidatesFail(i) ==
  /\ tasks[i].fn = "loadCandidates"
  /\ Drop(i)
  /\ UNCHANGED <<route, venueId, week, db, st, base, events>>

\* onChange of the source filter (lines 1029-1034); the list effect re-runs
setSourceFilter(f) ==
  /\ User
  /\ route = "evidence" /\ Rendered /\ f # st.sourceFilter
  /\ LET e == loadEvidence([st EXCEPT !.sourceFilter = f], venueId)
     IN /\ CanSpawn(Len(e.spawn))
        /\ st' = e.st /\ Spawn(e.spawn)
  /\ Track({})
  /\ UNCHANGED <<route, venueId, week, db>>

\* EvidenceCard onClick (lines 1058, 1125)
Evidence_onSelect(k) ==
  /\ User
  /\ route = "evidence" /\ Rendered /\ ~st.loading
  /\ k \in 1..Len(st.evidenceList)
  /\ st.selectedEvidence # Some(st.evidenceList[k])
  /\ LET e == loadCandidates([st EXCEPT !.selectedEvidence = Some(st.evidenceList[k])],
                             Some(st.evidenceList[k]))
     IN /\ CanSpawn(Len(e.spawn))
        /\ st' = e.st /\ Spawn(e.spawn)
  /\ Track({"selectedEvidence"})
  /\ UNCHANGED <<route, venueId, week, db>>

\* "Upload Evidence" / "Add More Evidence" (lines 882-898)
openUploadForm ==
  /\ User
  /\ route = "evidence" /\ Rendered /\ ~st.showUploadForm
  /\ st' = [st EXCEPT !.showUploadForm = TRUE]
  /\ UNCHANGED <<route, venueId, week, db, tasks, base>>

\* Cancel of the upload form (lines 974-982)
cancelUpload ==
  /\ User
  /\ route = "evidence" /\ Rendered /\ st.showUploadForm
  /\ st' = [st EXCEPT !.showUploadForm = FALSE, !.selectedFile = FALSE]
  /\ UNCHANGED <<route, venueId, week, db, tasks, base>>

\* onChange of the upload form's source (line 938)
setUploadSource(src) ==
  /\ User
  /\ route = "evidence" /\ Rendered /\ st.showUploadForm
  /\ src # st.uploadSource
  /\ st' = [st EXCEPT !.uploadSource = src]
  /\ UNCHANGED <<route, venueId, week, db, tasks, base>>

\* lines 732-737: a file was chosen
handleFileSelect ==
  /\ User
  /\ route = "evidence" /\ Rendered /\ st.showUploadForm
  /\ ~st.selectedFile
  /\ st' = [st EXCEPT !.selectedFile = TRUE]
  /\ UNCHANGED <<route, venueId, week, db, tasks, base>>

\* disabled attribute of "Upload" (line 969)
UploadDisabled == st.submitting \/ ~st.selectedFile

\* "Upload" clicked: lines 739-752, up to the await
handleUpload ==
  /\ User
  /\ route = "evidence" /\ Rendered /\ st.showUploadForm
  /\ ~UploadDisabled
  /\ ~(venueId = NoParam \/ ~st.selectedFile)
  /\ CanSpawn(1)
  /\ st' = [st EXCEPT !.submitting = TRUE, !.error = NullError]
  /\ Spawn(<<[fn |-> "handleUpload", venueId |-> venueId,
              uploadSource |-> st.uploadSource, evidenceList |-> st.evidenceList]>>)
  /\ KeepBase
  /\ UNCHANGED <<route, venueId, week, db>>

\* line 753: setEvidenceList([result.evidence, ...evidenceList])
PrependEvidence(new, evidenceList) == <<new>> \o evidenceList

\* lines 753-759 and 762-764: uploadEvidence resolved
handleUploadOk(i) ==
  /\ tasks[i].fn = "handleUpload"
  /\ Len(db.evidence) < MaxRecords
  /\ db' = DbUploadEvidence(db, tasks[i].venueId, tasks[i].uploadSource)
  /\ st' = [st EXCEPT !.evidenceList = PrependEvidence(DbEvidence(db', Len(db'.evidence)),
                                                      tasks[i].evidenceList),
                      !.showUploadForm = FALSE,
                      !.selectedFile = FALSE,
                      !.uploadSource = "other",
                      !.submitting = FALSE]
  /\ Drop(i) /\ SyncBase
  /\ UNCHANGED <<route, venueId, week, events>>

\* lines 760-764: uploadEvidence rejected
handleUploadFail(i, m) ==
  /\ tasks[i].fn = "handleUpload"
  /\ st' = [st EXCEPT !.error = m, !.submitting = FALSE]
  /\ Drop(i) /\ SyncBase
  /\ UNCHANGED <<route, venueId, week, db, events>>

\* disabled attribute of "Extract" (line 1153) and the test of line 1149
ExtractDisabled == st.submitting

\* "Extract" of the k-th card clicked (lines 1059, 1145-1161): lines 767-774,
\* up to the await of extractFromEvidence
handleExtract(k) ==
  /\ User
  /\ route = "evidence" /\ Rendered /\ ~st.loading
  /\ k \in 1..Len(st.evidenceList)
  /\ ~ExtractDisabled /\ ~st.submitting
  /\ CanSpawn(1)
  /\ st' = [st EXCEPT !.submitting = TRUE, !.error = NullError]
  /\ Spawn(<<[fn |-> "handleExtract", pc |-> "extractFromEvidence",
              evidence |-> st.evidenceList[k]]>>)
  /\ KeepBase
  /\ UNCHANGED <<route, venueId, week, db>>

\* lines 774-778: extractFromEvidence resolved; the candidates are set and
\* the handler goes on to await getPendingCandidates
handleExtractExtracted(i) ==
  /\ tasks[i].fn = "handleExtract" /\ tasks[i].pc = "extractFromEvidence"
  /\ Len(db.candidates) < MaxRecords
  /\ db' = DbExtractFromEvidence(db, tasks[i].evidence.id)
  /\ st' = [st EXCEPT !.candidates = <<DbCandidate(db', Len(db'.candidates))>>]
  /\ tasks' = [tasks EXCEPT ![i] = [fn |-> "handleExtract",
                                    pc |-> "getPendingCandidates",
                                    evidence |-> @.evidence]]
  /\ KeepBase
  /\ UNCHANGED <<route, venueId, week, events>>

\* lines 780 and 784-786: the refresh of the pending candidates resolved
handleExtractOk(i) ==
  /\ tasks[i].fn = "handleExtract" /\ tasks[i].pc = "getPendingCandidates"
  /\ st' = [st EXCEPT !.pendingCandidates = getPendingCandidates(db),
                      !.submitting = FALSE]
  /\ Drop(i) /\ SyncBase
  /\ UNCHANGED <<route, venueId, week, db, events>>

\* lines 781-786: extractFromEvidence or the refresh rejected
handleExtractFail(i, m) ==
  /\ tasks[i].fn = "handleExtract"
  /\ st' = [st EXCEPT !.error = m, !.submitting = FALSE]
  /\ Drop(i) /\ SyncBase
  /\ UNCHANGED <<route, venueId, week, db, events>>

\* line 1068: the candidates panel is rendered
CandidatesShown == st.selectedEvidence # None

\* disabled attribute of a card's Confirm and Reject (lines 1237, 1244)
ReviewDisabled == st.submitting

\* the await that follows a resolved confirmCandidate or rejectCandidate
\* (lines 796 and 830): the candidates are refreshed if evidence is selected
AfterReview(sel) ==
  IF sel # None THEN "getCandidatesByEvidence" ELSE "getPendingCandidates"

\* Confirm of the k-th candidate card clicked (lines 1083, 1233-1241): lines
\* 789-794, up to the await of confirmCandidate
handleConfirm(k) ==
  /\ User
  /\ route = "evidence" /\ Rendered /\ CandidatesShown
  /\ k \in 1..Len(st.candidates)
  /\ st.candidates[k].status = "pending" /\ ~ReviewDisabled
  /\ CanSpawn(1)
  /\ st' = [st EXCEPT !.submitting = TRUE, !.error = NullError]
  /\ Spawn(<<[fn |-> "handleConfirm", pc |-> "confirmCandidate",
              candidate |-> st.candidates[k],
              selectedEvidence |-> st.selectedEvidence]>>)
  /\ KeepBase
  /\ UNCHANGED <<route, venueId, week, db>>

\* Reject of the k-th candidate card clicked (lines 1084, 1242-1248): lines
\* 810-814
handleStartReject(k) ==
  /\ User
  /\ route = "evidence" /\ Rendered /\ CandidatesShown
  /\ k \in 1..Len(st.candidates)
  /\ st.candidates[k].status = "pending" /\ ~ReviewDisabled
  /\ st' = [st EXCEPT !.rejectTarget = Some(st.candidates[k]),
                      !.rejectReason = <<>>,
                      !.showRejectForm = TRUE]
  /\ UNCHANGED <<route, venueId, week, db, tasks, base>>

\* line 988: the rejection form is rendered
RejectFormShown == st.showRejectForm /\ st.rejectTarget # None

\* onChange of the rejection reason (line 999)
setRejectReason(r) ==
  /\ User
  /\ route = "evidence" /\ Rendered /\ RejectFormShown
  /\ r # st.rejectReason
  /\ st' = [st EXCEPT !.rejectReason = r]
  /\ UNCHANGED <<route, venueId, week, db, tasks, base>>

\* Cancel of the rejection form (lines 1013-1021)
cancelReject ==
  /\ User
  /\ route = "evidence" /\ Rendered /\ RejectFormShown
  /\ st' = [st EXCEPT !.showRejectForm = FALSE, !.rejectTarget = None]
  /\ UNCHANGED <<route, venueId, week, db, tasks, base>>

\* disabled attribute of the form's Reject (line 1008)
RejectDisabled == st.submitting \/ IsBlank(st.rejectReason)

\* the form's Reject clicked: lines 816-828, up to the await of rejectCandidate
handleReject ==
  /\ User
  /\ route = "evidence" /\ Rendered /\ RejectFormShown
  /\ ~RejectDisabled
  /\ ~(st.rejectTarget = None \/ IsBlank(st.rejectReason))
  /\ CanSpawn(1)
  /\ st' = [st EXCEPT !.submitting = TRUE, !.error = NullError]
  /\ Spawn(<<[fn |-> "handleReject", pc |-> "rejectCandidate",
              candidate |-> st.rejectTarget[1], reason |-> st.rejectReason,
              selectedEvidence |-> st.selectedEvidence]>>)
  /\ KeepBase
  /\ UNCHANGED <<route, venueId, week, db>>

\* lines 794-796 and 823-830: confirmCandidate or rejectCandidate resolved
handleReviewReviewed(i) ==
  /\ tasks[i].fn \in {"handleConfirm", "handleReject"}
  /\ tasks[i].pc \in {"confirmCandidate", "rejectCandidate"}
  /\ db.candidates[tasks[i].candidate.id].status = "pending"
  /\ db' = DbReviewCandidate(db, tasks[i].candidate.id,
                             IF tasks[i].fn = "handleConfirm" THEN "confirmed"
                             ELSE "rejected")
  /\ tasks' = [tasks EXCEPT ![i] = [@ EXCEPT !.pc = AfterReview(tasks[i].selectedEvidence)]]
  /\ KeepBase
  /\ UNCHANGED <<route, venueId, week, st, events>>

\* lines 797-801 and 831-835: the refresh of the candidates resolved
handleReviewRefreshed(i) ==
  /\ tasks[i].fn \in {"handleConfirm", "handleReject"}
  /\ tasks[i].pc = "getCandidatesByEvidence"
  /\ st' = [st EXCEPT !.candidates =
              getCandidatesByEvidence(db, tasks[i].selectedEvidence[1].id)]
  /\ tasks' = [tasks EXCEPT ![i] = [@ EXCEPT !.pc = "getPendingCandidates"]]
  /\ KeepBase
  /\ UNCHANGED <<route, venueId, week, db, events>>

\* lines 802 and 805-807: the refresh of the pending candidates resolved
handleConfirmOk(i) ==
  /\ tasks[i].fn = "handleConfirm" /\ tasks[i].pc = "getPendingCandidates"
  /\ st' = [st EXCEPT !.pendingCandidates = getPendingCandidates(db),
                      !.submitting = FALSE]
  /\ Drop(i) /\ SyncBase
  /\ UNCHANGED <<route, venueId, week, db, events>>

\* handleReject without its refresh of the pending candidates
handleRejectOkNoRefresh(i) ==
  /\ tasks[i].fn = "handleReject" /\ tasks[i].pc = "getPendingCandidates"
  /\ st' = [st EXCEPT !.showRejectForm = FALSE,
                      !.rejectTarget = None,
                      !.rejectReason = <<>>,
                      !.submitting = FALSE]
  /\ Drop(i) /\ SyncBase
  /\ UNCHANGED <<route, venueId, week, db, events>>

\* lines 836-839 and 842-844: the refresh of the pending candidates resolved
handleRejectOk(i) ==
  /\ tasks[i].fn = "handleReject" /\ tasks[i].pc = "getPendingCandidates"
  /\ st' = [st EXCEPT !.pendingCandidates = getPendingCandidates(db),
                      !.showRejectForm = FALSE,
                      !.rejectTarget = None,
                      !.rejectReason = <<>>,
                      !.submitting = FALSE]
  /\ Drop(i) /\ SyncBase
  /\ UNCHANGED <<route, venueId, week, db, events>>

\* lines 803-807 and 840-844: a request of handleConfirm or handleReject
\* rejected
handleReviewFail(i, m) ==
  /\ tasks[i].fn \in {"handleConfirm", "handleReject"}
  /\ st' = [st EXCEPT !.error = m, !.submitting = FALSE]
  /\ Drop(i) /\ SyncBase
  /\ UNCHANGED <<route, venueId, week, db, events>>


\* a faulty variant of getNextAction: the pending candidates are looked at
\* first
getNextActionReviewFirst ==
  IF Len(st.pendingCandidates) > 0 THEN "review"
  ELSE IF Len(st.evidenceList) = 0 THEN "upload"
  ELSE "extract"

\* lines 848-859, called on every render (line 861)
getNextAction ==
  IF Len(st.evidenceList) = 0 THEN "upload"
  ELSE IF Len(st.pendingCandidates) > 0 THEN "review"
  ELSE "extract"

EvidenceUser ==
  \/ \E f \in SourceFilters : setSourceFilter(f)
  \/ \E k \in 1..Len(st.evidenceList) : Evidence_onSelect(k)
  \/ openUploadForm
  \/ cancelUpload
  \/ \E src \in Sources : setUploadSource(src)
  \/ handleFileSelect
  \/ handleUpload
  \/ \E k \in 1..Len(st.evidenceList) : handleExtract(k)
  \/ \E k \in 1..Len(st.candidates) : handleConfirm(k)
  \/ \E k \in 1..Len(st.candidates) : handleStartReject(k)
  \/ \E r \in StringsUpTo(MaxReasonLen) : setRejectReason(r)
  \/ cancelReject
  \/ handleReject

EvidenceSettle(i) ==
  \/ loadEvidenceOk(i)
  \/ \E m \in Msgs : loadEvidenceFail(i, m)
  \/ loadPendingCandidatesOk(i)
  \/ loadPendingCandidatesFail(i)
  \/ loadCandidatesOk(i)
  \/ loadCandidatesFail(i)
  \/ handleUploadOk(i)
  \/ \E m \in Msgs : handleUploadFail(i, m)
  \/ handleExtractExtracted(i)
  \/ handleExtractOk(i)
  \/ \E m \in Msgs : handleExtractFail(i, m)
  \/ handleReviewReviewed(i)
  \/ handleReviewRefreshed(i)
  \/ handleConfirmOk(i)
  \/ handleRejectOk(i)
  \/ \E m \in Msgs : handleReviewFail(i, m)

(***************************************************************************)
(* Read-only pages: Monday Brief (src/unnamed/part_002), Variance (second  *)
(* half of src/src/pages/BudgetWorkflowPage.tsx), Guardian Findings        *)
(* (src/unnamed/part_001)                                                  *)
(***************************************************************************)
BriefInit == [brief |-> None, loading |-> FALSE, error |-> NullError]

VarianceInit == [variances |-> <<>>, loading |-> FALSE, error |-> NullError]

FindingsInit == [findings |-> <<>>, loading |-> FALSE, error |-> NullError]

\* the effect of part_002 lines 57-78, run with venue v and week w
loadBrief(s, v, w) ==
  IF v = NoParam \/ w = NoParam
  THEN [st |-> [s EXCEPT !.brief = None], spawn |-> <<>>]
  ELSE [st |-> [s EXCEPT !.loading = TRUE, !.error = NullError],
        spawn |-> <<[fn |-> "loadBrief", venueId |-> v, weekStartDate |-> w]>>]

\* part_002 lines 68-69, 72-74: getMondayBrief resolved
loadBriefOk(i) ==
  /\ tasks[i].fn = "loadBrief"
  /\ st' = [st EXCEPT !.brief = getMondayBrief(tasks[i].venueId, tasks[i].weekStartDate),
                      !.loading = FALSE]
  /\ Drop(i) /\ Track({"brief"})
  /\ UNCHANGED <<route, venueId, week, db, events>>

\* part_002 lines 70-74: getMondayBrief rejected
loadBriefFail(i, m) ==
  /\ tasks[i].fn = "loadBrief"
  /\ st' = [st EXCEPT !.error = m, !.loading = FALSE]
  /\ Drop(i) /\ Track({})
  /\ UNCHANGED <<route, venueId, week, db, events>>

\* the effect of BudgetWorkflowPage.tsx lines 526-547, run with venue v
loadVariances(s, v) ==
  IF v = NoParam
  THEN [st |-> [s EXCEPT !.variances = <<>>], spawn |-> <<>>]
  ELSE [st |-> [s EXCEPT !.loading = TRUE, !.error = NullError],
        spawn |-> <<[fn |-> "loadVariances", venueId |-> v]>>]

\* lines 537-538, 541-543: getVariances resolved
loadVariancesOk(i) ==
  /\ tasks[i].fn = "loadVariances"
  /\ st' = [st EXCEPT !.variances = getVariances(tasks[i].venueId),
                      !.loading = FALSE]
  /\ Drop(i) /\ Track({"variances"})
  /\ UNCHANGED <<route, venueId, week, db, events>>

\* lines 539-543: getVariances rejected
loadVariancesFail(i, m) ==
  /\ tasks[i].fn = "loadVariances"
  /\ st' = [st EXCEPT !.error = m, !.loading = FALSE]
  /\ Drop(i) /\ Track({})
  /\ UNCHANGED <<route, venueId, week, db, events>>

\* the effect of part_001 lines 37-62, run with venue v and week w
loadFindings(s, v, w) ==
  IF v = NoParam
  THEN [st |-> [s EXCEPT !.findings = <<>>], spawn |-> <<>>]
  ELSE [st |-> [s EXCEPT !.loading = TRUE, !.error = NullError],
        spawn |-> <<[fn |-> "loadFindings", venueId |-> v, weekStartDate |-> w]>>]

\* part_001 lines 48-53, 56-58: getGuardianFindings resolved
loadFindingsOk(i) ==
  /\ tasks[i].fn = "loadFindings"
  /\ st' = [st EXCEPT !.findings =
              getGuardianFindings(tasks[i].venueId, tasks[i].weekStartDate),
                      !.loading = FALSE]
  /\ Drop(i) /\ Track({"findings"})
  /\ UNCHANGED <<route, venueId, week, db, events>>

\* part_001 lines 54-58: getGuardianFindings rejected
loadFindingsFail(i, m) ==
  /\ tasks[i].fn = "loadFindings"
  /\ st' = [st EXCEPT !.error = m, !.loading = FALSE]
  /\ Drop(i) /\ Track({})
  /\ UNCHANGED <<route, venueId, week, db, events>>

ViewSettle(i) ==
  \/ loadBriefOk(i)
  \/ \E m \in Msgs : loadBriefFail(i, m)
  \/ loadVariancesOk(i)
  \/ \E m \in Msgs : loadVariancesFail(i, m)
  \/ loadFindingsOk(i)
  \/ \E m \in Msgs : loadFindingsFail(i, m)

(***************************************************************************)
(* The URL-held selection (src/src/components/Layout.tsx) and the effects  *)
(* that depend on it                                                       *)
(***************************************************************************)
\* an effect run on the state another effect of the same render left
Then(e, f) == [st |-> f.st, spawn |-> e.spawn \o f.spawn]

\* the effects of the mounted page whose dependencies changed when the URL
\* went from venue v0 and week w0 to venue v and week w
SelectionEffects(r, s, v0, w0, v, w) ==
  CASE r = "budget" -> IF v # v0 THEN loadBudgets(s, v) ELSE NoEffect(s)
    [] r = "labour" -> IF v # v0 THEN loadLabourPlans(s, v) ELSE NoEffect(s)
    [] r = "evidence" -> IF v # v0 THEN loadEvidence(s, v) ELSE NoEffect(s)
    [] r = "cash" ->
         LET e == IF v # v0 THEN loadSnapshots(s, v) ELSE NoEffect(s)
         IN IF v # v0 \/ Cash_selectedWeek(w) # Cash_selectedWeek(w0)
            THEN Then(e, loadWeekHistory(e.st, v, Cash_selectedWeek(w)))
            ELSE e
    [] r = "brief" -> IF v # v0 \/ w # w0 THEN loadBrief(s, v, w) ELSE NoEffect(s)
    [] r = "variance" -> IF v # v0 THEN loadVariances(s, v) ELSE NoEffect(s)
    [] r = "findings" -> IF v # v0 \/ w # w0 THEN loadFindings(s, v, w) ELSE NoEffect(s)

\* the effects of the page's first render, with venue v and week w in the URL
MountEffects(r, s, v, w) ==
  CASE r = "budget" -> loadBudgets(s, v)
    [] r = "labour" -> loadLabourPlans(s, v)
    [] r = "evidence" ->
         LET e == loadEvidence(s, v)
         IN [st |-> e.st, spawn |-> e.spawn \o loadPendingCandidates]
    [] r = "cash" ->
         LET e == loadSnapshots(s, v)
         IN Then(e, loadWeekHistory(e.st, v, Cash_selectedWeek(w)))
    [] r = "brief" -> loadBrief(s, v, w)
    [] r = "variance" -> loadVariances(s, v)
    [] r = "findings" -> loadFindings(s, v, w)

\* the list fields the selection effects of the page of route r assign
SelectionFields(r) ==
  CASE r = "budget" -> {"budgets"}
    [] r = "labour" -> {"labourPlans"}
    [] r = "evidence" -> {"evidenceList"}
    [] r = "cash" -> {"snapshots", "weekHistory"}
    [] r = "brief" -> {"brief"}
    [] r = "variance" -> {"variances"}
    [] r = "findings" -> {"findings"}

\* Layout.tsx lines 85-89: params.set("venueId", venueId)
handleVenueChange(v) ==
  /\ User
  /\ v # venueId
  /\ venueId' = v
  /\ LET e == SelectionEffects(route, st, venueId, week, v, week)
     IN /\ CanSpawn(Len(e.spawn))
        /\ st' = e.st /\ Spawn(e.spawn)
  /\ Track(SelectionFields(route))
  /\ UNCHANGED <<route, week, db>>

\* Layout.tsx lines 91-95: params.set("week", week)
handleWeekChange(w) ==
  /\ User
  /\ w # week
  /\ week' = w
  /\ LET e == SelectionEffects(route, st, venueId, week, venueId, w)
     IN /\ CanSpawn(Len(e.spawn))
        /\ st' = e.st /\ Spawn(e.spawn)
  /\ Track(SelectionFields(route))
  /\ UNCHANGED <<route, venueId, db>>

(***************************************************************************)
(* Specifications                                                          *)
(***************************************************************************)
InitState(r) ==
  CASE r = "budget" -> BudgetInit
    [] r = "labour" -> LabourInit
    [] r = "cash" -> CashInit
    [] r = "evidence" -> EvidenceInit
    [] r = "brief" -> BriefInit
    [] r = "variance" -> VarianceInit
    [] r = "findings" -> FindingsInit

\* the pages that show week-scoped data; on the other pages no code reads
\* the week parameter, and the model leaves it as it is
WeekRoutes == {"cash", "brief", "variance", "findings"}

\* the page of route r has been mounted, with or without a selection in the
\* URL, and its effects have run once
Mounted(r) ==
  /\ route = r
  /\ venueId \in {NoParam, "v1"}
  /\ week \in IF r \in WeekRoutes THEN {NoParam, "w1"} ELSE {NoParam}
  /\ LET e == MountEffects(r, InitState(r), venueId, week)
     IN st = e.st /\ tasks = e.spawn
  /\ db = InitDb
  /\ base = Lists(r, st)
  /\ events = 0

VenueSelection == \E v \in Venues \cup {NoParam} : handleVenueChange(v)

WeekSelection == route \in WeekRoutes /\ \E w \in Weeks : handleWeekChange(w)

\* a link that would drop the query string: to={item.path}
NavigateBare(r) ==
  /\ User
  /\ r # route
  /\ route' = r /\ venueId' = NoParam /\ week' = NoParam
  /\ LET e == MountEffects(r, InitState(r), NoParam, NoParam)
     IN st' = e.st /\ tasks' = e.spawn
  /\ base' = Lists(r, st')
  /\ UNCHANGED db

\* Layout.tsx lines 186-227: a navigation link followed,
\* to={`${item.path}?${searchParams.toString()}`}.  The page of the new
\* route is mounted and its effects run; the calls of the page left behind
\* assign nothing any more.
Navigate(r) ==
  /\ User
  /\ r # route
  /\ route' = r
  /\ LET e == MountEffects(r, InitState(r), venueId, week)
     IN st' = e.st /\ tasks' = e.spawn
  /\ base' = Lists(r, st')
  /\ UNCHANGED <<venueId, week, db>>

Init == \E r \in Routes : Mounted(r)

Next ==
  \/ VenueSelection
  \/ WeekSelection
  \/ route = "budget" /\ BudgetUser
  \/ route = "labour" /\ LabourUser
  \/ route = "cash" /\ CashUser
  \/ route = "evidence" /\ EvidenceUser
  \/ \E i \in 1..Len(tasks) :
       \/ BudgetSettle(i)
       \/ LabourSettle(i)
       \/ CashSettle(i)
       \/ EvidenceSettle(i)
       \/ ViewSettle(i)

Spec == Init /\ [][Next]_vars

InitBudget == Mounted("budget")
NextBudget == VenueSelection \/ BudgetUser \/ \E i \in 1..Len(tasks) : BudgetSettle(i)
SpecBudget == InitBudget /\ [][NextBudget]_vars

InitLabour == Mounted("labour")
NextLabour == VenueSelection \/ LabourUser \/ \E i \in 1..Len(tasks) : LabourSettle(i)
SpecLabour == InitLabour /\ [][NextLabour]_vars

InitCash == Mounted("cash")
NextCash ==
  VenueSelection \/ WeekSelection \/ CashUser \/ \E i \in 1..Len(tasks) : CashSettle(i)
SpecCash == InitCash /\ [][NextCash]_vars

InitEvidence == Mounted("evidence")
NextEvidence ==
  VenueSelection \/ EvidenceUser \/ \E i \in 1..Len(tasks) : EvidenceSettle(i)
SpecEvidence == InitEvidence /\ [][NextEvidence]_vars

InitViews == \E r \in {"brief", "variance", "findings"} : Mounted(r)
NextViews == VenueSelection \/ WeekSelection \/ \E i \in 1..Len(tasks) : ViewSettle(i)
SpecViews == InitViews /\ [][NextViews]_vars

InitPlans == \E r \in {"budget", "labour", "cash"} : Mounted(r)
NextPlans ==
  \/ VenueSelection
  \/ WeekSelection
  \/ route = "budget" /\ BudgetUser
  \/ route = "labour" /\ LabourUser
  \/ route = "cash" /\ CashUser
  \/ \E i \in 1..Len(tasks) : BudgetSettle(i) \/ LabourSettle(i) \/ CashSettle(i)
SpecPlans == InitPlans /\ [][NextPlans]_vars


\* Layout on its own: the selectors and the navigation links, over pages
\* that only load
InitLayout ==
  /\ route \in Routes
  /\ venueId \in {NoParam, "v1"}
  /\ week \in {NoParam, "w1"}
  /\ LET e == MountEffects(route, InitState(route), venueId, week)
     IN st = e.st /\ tasks = e.spawn
  /\ db = InitDb
  /\ base = Lists(route, st)
  /\ events = 0

\* the settle steps are those of the requests a page issues when it mounts
\* or the selection changes
NextLayout ==
  \/ VenueSelection
  \/ \E w \in Weeks : handleWeekChange(w)
  \/ \E r \in Routes : Navigate(r)
  \/ \E i \in 1..Len(tasks) : loadBudgetsOk(i)
  \/ \E i \in 1..Len(tasks) : \E m \in Msgs : loadBudgetsFail(i, m)
  \/ \E i \in 1..Len(tasks) : loadLabourPlansOk(i)
  \/ \E i \in 1..Len(tasks) : \E m \in Msgs : loadLabourPlansFail(i, m)
  \/ \E i \in 1..Len(tasks) : loadSnapshotsOk(i)
  \/ \E i \in 1..Len(tasks) : \E m \in Msgs : loadSnapshotsFail(i, m)
  \/ \E i \in 1..Len(tasks) : loadWeekHistoryOk(i)
  \/ \E i \in 1..Len(tasks) : loadWeekHistoryFail(i)
  \/ \E i \in 1..Len(tasks) : loadEvidenceOk(i)
  \/ \E i \in 1..Len(tasks) : \E m \in Msgs : loadEvidenceFail(i, m)
  \/ \E i \in 1..Len(tasks) : loadPendingCandidatesOk(i)
  \/ \E i \in 1..Len(tasks) : loadPendingCandidatesFail(i)
  \/ \E i \in 1..Len(tasks) : loadBriefOk(i)
  \/ \E i \in 1..Len(tasks) : \E m \in Msgs : loadBriefFail(i, m)
  \/ \E i \in 1..Len(tasks) : loadVariancesOk(i)
  \/ \E i \in 1..Len(tasks) : \E m \in Msgs : loadVariancesFail(i, m)
  \/ \E i \in 1..Len(tasks) : loadFindingsOk(i)
  \/ \E i \in 1..Len(tasks) : \E m \in Msgs : loadFindingsFail(i, m)

SpecLayout == InitLayout /\ [][NextLayout]_vars

\* a response arrives for one of the requests in flight
Settle ==
  \E i \in 1..Len(tasks) :
    \/ BudgetSettle(i)
    \/ LabourSettle(i)
    \/ CashSettle(i)
    \/ EvidenceSettle(i)
    \/ ViewSettle(i)

\* every request is answered in the end: the backend or the network layer
\* settles each fetch with a response or an error
\* a page has been mounted; one of the MaxEvents user actions of a run is
\* taken as spent, which keeps the graph of the fair specification small
InitLive ==
  /\ route \in Routes
  /\ venueId \in {NoParam, "v1"}
  /\ week \in IF route \in WeekRoutes THEN {NoParam, "w1"} ELSE {NoParam}
  /\ LET e == MountEffects(route, InitState(route), venueId, week)
     IN st = e.st /\ tasks = e.spawn
  /\ db = InitDb
  /\ base = Lists(route, st)
  /\ events = 1

SpecLive == InitLive /\ [][Next]_vars /\ WF_vars(Settle)

(***************************************************************************)
(* The API client (src/src/api/client.ts): what each function makes of the *)
(* HTTP response to its request                                            *)
(***************************************************************************)
\* JSON values, as far as the client tells them apart
Undefined == [t |-> "undefined", items |-> <<>>]      \* a key the object lacks
JsNull == [t |-> "null", items |-> <<>>]
JsString(s) == [t |-> "string", items |-> s]          \* <<>> is the string ""
JsObject == [t |-> "object", items |-> <<"r1">>]      \* a record
JsArray(s) == [t |-> "array", items |-> s]

\* the values JavaScript's || passes over
Falsy(x) == x.t \in {"undefined", "null"} \/ (x.t = "string" /\ x.items = <<>>)

\* x || d
Or(x, d) == IF Falsy(x) THEN d ELSE x

HttpStatuses == {200, 201, 400, 404, 500}

statusText(s) ==
  CASE s = 200 -> "OK"
    [] s = 201 -> "Created"
    [] s = 400 -> "Bad Request"
    [] s = 404 -> "Not Found"
    [] s = 500 -> "Internal Server Error"

\* response.ok
ok(s) == s \in 200..299

\* values of the content-type header, in pieces; <<>> is an absent header
ContentTypes ==
  {<<>>, <<"application/json">>, <<"application/json", "; charset=utf-8">>,
   <<"text/html">>, <<"application/problem+json">>}

\* contentType.includes(piece)
includes(ct, piece) == \E k \in 1..Len(ct) : ct[k] = piece

\* a response body: a JSON object (with or without an error field, and with
\* or without the envelope key the function reads), the JSON value null, or
\* text that is not JSON (an HTML page, an empty body)
ErrorFields == {Undefined, JsString(<<>>), JsString(<<"Budget is locked">>)}
DataFields == {Undefined, JsNull, JsObject, JsArray(<<>>), JsArray(<<"r1">>)}

Bodies ==
  {[json |-> "object", error |-> e, data |-> d] : e \in ErrorFields, d \in DataFields}
    \cup {[json |-> "null", error |-> Undefined, data |-> Undefined],
          [json |-> "none", error |-> Undefined, data |-> Undefined]}

Responses ==
  {[status |-> s, contentType |-> ct, body |-> b] :
     s \in HttpStatuses, ct \in ContentTypes, b \in Bodies}

\* what a call comes to: a returned JSON value, a returned envelope (the
\* parsed body as a whole), or a thrown error
NoError == [name |-> "", prefix |-> "", text |-> ""]
Returned(v) == [tag |-> "returned", value |-> v, body |-> None, error |-> NoError]
ReturnedBody(b) ==
  [tag |-> "returned", value |-> Undefined, body |-> Some(b), error |-> NoError]
Threw(name, prefix, text) ==
  [tag |-> "threw", value |-> Undefined, body |-> None,
   error |-> [name |-> name, prefix |-> prefix, text |-> text]]

\* await response.json() of a body that is not JSON
SyntaxError == Threw("SyntaxError", "", "Unexpected token")

\* reading a property of null
TypeError == Threw("TypeError", "", "Cannot read properties of null")

SingleLookups ==
  {"getMondayBrief", "getBudget", "getConfirmedBudget", "getLabourPlan",
   "getConfirmedLabourPlan", "getCashSnapshotByWeek", "getEvidence"}

ListFetches ==
  {"getVenues", "getMondayBriefs", "getVariances", "getVariancesByPeriod",
   "getGuardianFindings", "getBudgets", "getBudgetVersions", "getLabourPlans",
   "getLabourPlanVersions", "getCashSnapshots", "getCashSnapshotHistory",
   "getEvidenceByVenue", "getCandidatesByEvidence", "getPendingCandidates"}

JsonWrites ==
  {"createBudget", "confirmBudget", "createLabourPlan", "confirmLabourPlan",
   "createCashSnapshot", "createCorrectionSnapshot", "extractFromEvidence",
   "confirmCandidate", "rejectCandidate"}

ClientFns == SingleLookups \cup ListFetches \cup JsonWrites \cup {"uploadEvidence"}

\* the key of the response envelope a read function returns
EnvelopeKey(fn) ==
  CASE fn = "getVenues" -> "venues"
    [] fn = "getMondayBrief" -> "brief"
    [] fn = "getMondayBriefs" -> "briefs"
    [] fn \in {"getVariances", "getVariancesByPeriod"} -> "variances"
    [] fn = "getGuardianFindings" -> "findings"
    [] fn = "getBudgets" -> "budgets"
    [] fn \in {"getBudget", "getConfirmedBudget"} -> "budget"
    [] fn \in {"getBudgetVersions", "getLabourPlanVersions"} -> "versions"
    [] fn = "getLabourPlans" -> "labourPlans"
    [] fn \in {"getLabourPlan", "getConfirmedLabourPlan"} -> "labourPlan"
    [] fn \in {"getCashSnapshots", "getCashSnapshotHistory"} -> "snapshots"
    [] fn = "getCashSnapshotByWeek" -> "snapshot"
    [] fn \in {"getEvidenceByVenue", "getEvidence"} -> "evidence"
    [] fn \in {"getCandidatesByEvidence", "getPendingCandidates"} -> "candidates"

\* the text a function puts in front of the status text
FailLabel(fn) ==
  CASE fn = "getVenues" -> "Failed to fetch venues"
    [] fn = "getMondayBrief" -> "Failed to fetch Monday brief"
    [] fn = "getMondayBriefs" -> "Failed to fetch Monday briefs"
    [] fn \in {"getVariances", "getVariancesByPeriod"} -> "Failed to fetch variances"
    [] fn = "getGuardianFindings" -> "Failed to fetch Guardian findings"
    [] fn = "getBudgets" -> "Failed to fetch budgets"
    [] fn = "getBudget" -> "Failed to fetch budget"
    [] fn = "getConfirmedBudget" -> "Failed to fetch confirmed budget"
    [] fn = "getBudgetVersions" -> "Failed to fetch budget versions"
    [] fn = "createBudget" -> "Failed to create budget"
    [] fn = "confirmBudget" -> "Failed to confirm budget"
    [] fn = "getLabourPlans" -> "Failed to fetch labour plans"
    [] fn = "getLabourPlan" -> "Failed to fetch labour plan"
    [] fn = "getConfirmedLabourPlan" -> "Failed to fetch confirmed labour plan"
    [] fn = "getLabourPlanVersions" -> "Failed to fetch labour plan versions"
    [] fn = "createLabourPlan" -> "Failed to create labour plan"
    [] fn = "confirmLabourPlan" -> "Failed to confirm labour plan"
    [] fn = "getCashSnapshots" -> "Failed to fetch cash snapshots"
    [] fn = "getCashSnapshotByWeek" -> "Failed to fetch cash snapshot"
    [] fn = "getCashSnapshotHistory" -> "Failed to fetch cash snapshot history"
    [] fn = "createCashSnapshot" -> "Failed to create cash snapshot"
    [] fn = "createCorrectionSnapshot" -> "Failed to create correction"
    [] fn \in {"getEvidenceByVenue", "getEvidence"} -> "Failed to fetch evidence"
    [] fn = "uploadEvidence" -> "Failed to upload evidence"
    [] fn = "extractFromEvidence" -> "Failed to extract from evidence"
    [] fn = "getCandidatesByEvidence" -> "Failed to fetch candidates"
    [] fn = "getPendingCandidates" -> "Failed to fetch pending candidates"
    [] fn = "confirmCandidate" -> "Failed to confirm candidate"
    [] fn = "rejectCandidate" -> "Failed to reject candidate"

\* const data = await response.json(); return data.<key> || d
ReadEnvelope(b, d) ==
  CASE b.json = "none" -> SyntaxError
    [] b.json = "null" -> TypeError
    [] OTHER -> Returned(Or(b.data, d))

\* a faulty variant of fetchOne: a 404 is thrown like any other status
fetchOneThrowing404(fn, r) ==
  IF ~ok(r.status)
  THEN Threw("Error", FailLabel(fn), statusText(r.status))
  ELSE ReadEnvelope(r.body, JsNull)

\* the single-record lookups (getMondayBrief, lines 40-56, and the like)
fetchOne(fn, r) ==
  IF ~ok(r.status)
  THEN IF r.status = 404
       THEN Returned(JsNull)
       ELSE Threw("Error", FailLabel(fn), statusText(r.status))
  ELSE ReadEnvelope(r.body, JsNull)

\* a faulty variant of fetchList: the envelope key is returned as it is
fetchListNoDefault(fn, r) ==
  IF ~ok(r.status)
  THEN Threw("Error", FailLabel(fn), statusText(r.status))
  ELSE ReadEnvelope(r.body, Undefined)

\* the list fetches (getBudgets, lines 158-173, and the like)
fetchList(fn, r) ==
  IF ~ok(r.status)
  THEN Threw("Error", FailLabel(fn), statusText(r.status))
  ELSE ReadEnvelope(r.body, JsArray(<<>>))

\* const error = await response.json();
\* throw new Error(error.error || `<label>: ${response.statusText}`)
ThrowErrorOf(fn, r) ==
  CASE r.body.json = "none" -> SyntaxError
    [] r.body.json = "null" -> TypeError
    [] Falsy(r.body.error) -> Threw("Error", FailLabel(fn), statusText(r.status))
    [] OTHER -> Threw("Error", "", r.body.error.items[1])

\* return response.json()
ReturnJson(r) == IF r.body.json = "none" THEN SyntaxError ELSE ReturnedBody(r.body)

\* the writes with a JSON answer (createBudget, lines 221-240, and the like)
postJson(fn, r) == IF ~ok(r.status) THEN ThrowErrorOf(fn, r) ELSE ReturnJson(r)

\* lines 529-530: !contentType || !contentType.includes("application/json")
NotJson(ct) == ct = <<>> \/ ~includes(ct, "application/json")

NonJsonResponse == Threw("Error", "Server returned non-JSON response", "")

\* a faulty variant of uploadEvidence: the content type is not looked at
uploadEvidenceUnchecked(r) ==
  IF ~ok(r.status) THEN ThrowErrorOf("uploadEvidence", r) ELSE ReturnJson(r)

\* uploadEvidence, lines 528-541
uploadEvidence(r) ==
  IF NotJson(r.contentType)
  THEN NonJsonResponse
  ELSE IF ~ok(r.status) THEN ThrowErrorOf("uploadEvidence", r) ELSE ReturnJson(r)

\* what the call of client function fn comes to when its request is answered
\* by response r
ClientCall(fn, r) ==
  CASE fn \in SingleLookups -> fetchOne(fn, r)
    [] fn \in ListFetches -> fetchList(fn, r)
    [] fn \in JsonWrites -> postJson(fn, r)
    [] fn = "uploadEvidence" -> uploadEvidence(r)

\* A client function on its own: st holds the function called, the response
\* to its request and what the call came to.
ClientIdle == [fn |-> "", response |-> None, result |-> None]

InitClient ==
  /\ route = "client" /\ venueId = NoParam /\ week = NoParam
  /\ st = ClientIdle /\ tasks = <<>> /\ db = InitDb /\ base = None /\ events = 0

Answer(fn, r) ==
  /\ route = "client" /\ st = ClientIdle
  /\ st' = [fn |-> fn, response |-> Some(r), result |-> Some(ClientCall(fn, r))]
  /\ UNCHANGED <<route, venueId, week, tasks, db, base, events>>

NextClient == \E fn \in ClientFns : \E r \in Responses : Answer(fn, r)

SpecClient == InitClient /\ [][NextClient]_vars

\* the function called, the response and the result, once the call is made
Called == st.fn # ""
Response == st.response[1]
Result == st.result[1]

(***************************************************************************)
(* parseUKDate (src/unnamed/part_003, lines 94-110)                        *)
(***************************************************************************)
\* the characters date strings are made of: a digit, the separator, a
\* letter, a blank and a sign
DateChars == {"1", "/", "x", " ", "-"}
Digits == {"1"}

DateStrings == UNION {[1..k -> DateChars] : k \in 0..MaxDateLen}

\* the index of the first "/" of s, 0 if there is none
RECURSIVE IndexOfSlash(_, _)
IndexOfSlash(s, k) ==
  IF k > Len(s) THEN 0 ELSE IF s[k] = "/" THEN k ELSE IndexOfSlash(s, k + 1)

\* dateString.split("/")
RECURSIVE split(_)
split(s) ==
  LET k == IndexOfSlash(s, 1)
  IN IF k = 0 THEN <<s>>
     ELSE <<SubSeq(s, 1, k - 1)>> \o split(SubSeq(s, k + 1, Len(s)))

\* the longest prefix of s that consists of digits
RECURSIVE DigitsPrefix(_)
DigitsPrefix(s) ==
  IF Len(s) > 0 /\ Head(s) \in Digits THEN <<Head(s)>> \o DigitsPrefix(Tail(s)) ELSE <<>>

\* the number a sequence of digits denotes in base ten
RECURSIVE Decimal(_)
Decimal(ds) ==
  IF ds = <<>> THEN 0 ELSE Decimal(SubSeq(ds, 1, Len(ds) - 1)) * 10 + 1

NaN == None

\* parseInt(s, 10): leading white space is skipped, a sign is read, then
\* digits up to the first character that is none; NaN if there is no digit
parseInt(s) ==
  LET t == TrimStart(s)
      neg == Len(t) > 0 /\ Head(t) = "-"
      ds == DigitsPrefix(IF neg THEN Tail(t) ELSE t)
  IN IF ds = <<>> THEN NaN
     ELSE Some(IF neg THEN 0 - Decimal(ds) ELSE Decimal(ds))

\* x - 1, where NaN - 1 is NaN
MinusOne(x) == IF x = NaN THEN NaN ELSE Some(x[1] - 1)

\* isNaN(new Date(Date.UTC(year, month, day)).getTime()): the date is beyond
\* the range of time values (about 275760 years either side of 1970)
OutOfRange(year, month, day) == year > 275000 \/ year < 0 - 270000

\* lines 94-110; a date is held as the arguments given to Date.UTC
parseUKDate(dateString) ==
  LET parts == split(dateString)
  IN IF Len(parts) # 3 THEN None
     ELSE LET day == parseInt(parts[1])
              month == MinusOne(parseInt(parts[2]))
              year == parseInt(parts[3])
          IN IF day = NaN \/ month = NaN \/ year = NaN THEN None
             ELSE IF OutOfRange(year[1], month[1], day[1]) THEN None
             ELSE Some([year |-> year[1], month |-> month[1], day |-> day[1]])

\* parseUKDate on its own: st holds the string given and, once the function
\* has been applied, its result
InitFormat ==
  /\ route = "formatting" /\ venueId = NoParam /\ week = NoParam
  /\ \E s \in DateStrings : st = [dateString |-> s, parsed |-> FALSE, date |-> None]
  /\ tasks = <<>> /\ db = InitDb /\ base = None /\ events = 0

Parse ==
  /\ route = "formatting" /\ ~st.parsed
  /\ st' = [st EXCEPT !.parsed = TRUE, !.date = parseUKDate(st.dateString)]
  /\ UNCHANGED <<route, venueId, week, tasks, db, base, events>>

NextFormat == Parse

SpecFormat == InitFormat /\ [][NextFormat]_vars

(***************************************************************************)
(* Week options (src/src/components/Layout.tsx, lines 26-62) and the Cash  *)
(* page's default week (src/src/pages/CashWorkflowPage.tsx, lines 37-44)   *)
(***************************************************************************)
\* A Date is the number of hours of local wall-clock time since 1 January
\* 1970, 00:00 local; the zone is the offset of local time from UTC in hours.
TodayDays == 100..113
HoursOfDay == {0, 12, 23}
TimezoneOffsets == {0 - 1, 0, 1}

\* date.getDay(): 0 is Sunday; 1 January 1970 was a Thursday
getDay(date) == ((date \div 24) + 4) % 7

\* date.setDate(date.getDate() + n): n days on, same time of day
AddDays(date, n) == date + 24 * n

\* date.toISOString().split("T")[0]: the calendar day in UTC, as the number
\* of days since 1 January 1970
toISODate(date, zone) == (date - zone) \div 24

\* the day of the week of a calendar day
WeekdayOf(isoDate) == (isoDate + 4) % 7

\* Layout.tsx lines 33-44: the values of the twelve recent options
getWeekOptions(today, zone) ==
  [i \in 1..12 |-> toISODate(AddDays(today, 0 - getDay(today) - (i - 1) * 7), zone)]

\* CashWorkflowPage.tsx lines 38-44
currentWeekStart(today, zone) ==
  LET day == getDay(today)
      diff == 0 - day + (IF day = 0 THEN 0 - 6 ELSE 1)
  IN toISODate(AddDays(today, diff), zone)

\* the week parameter of the URL: absent, or the day it names
WeekParams == {None, Some(95)}

\* Layout.tsx line 69: searchParams.get("week") || getWeekOptions()[0]?.value || ""
Layout_selectedWeek(param, today, zone) ==
  IF param # None THEN param ELSE Some(getWeekOptions(today, zone)[1])

\* CashWorkflowPage.tsx line 49: searchParams.get("week") || getCurrentWeekStart()
Cash_weekOf(param, today, zone) ==
  IF param # None THEN param ELSE Some(currentWeekStart(today, zone))

\* part_002 line 51 and part_001 line 31: searchParams.get("week") || "";
\* the empty string is held as None
Brief_weekStartDate(param) == param
Findings_weekStartDate(param) == param

\* the week functions on their own: st holds the clock, the URL's week and,
\* once the components have rendered, what each of them computed
InitWeeks ==
  /\ route = "weeks" /\ venueId = NoParam /\ week = NoParam
  /\ \E d \in TodayDays, h \in HoursOfDay, z \in TimezoneOffsets, p \in WeekParams :
       st = [today |-> d * 24 + h, zone |-> z, param |-> p, called |-> FALSE,
             options |-> <<>>, weekStart |-> 0, layoutWeek |-> None,
             cashWeek |-> None, briefWeek |-> None, findingsWeek |-> None]
  /\ tasks = <<>> /\ db = InitDb /\ base = None /\ events = 0

Render ==
  /\ route = "weeks" /\ ~st.called
  /\ st' = [st EXCEPT !.called = TRUE,
                      !.options = getWeekOptions(st.today, st.zone),
                      !.weekStart = currentWeekStart(st.today, st.zone),
                      !.layoutWeek = Layout_selectedWeek(st.param, st.today, st.zone),
                      !.cashWeek = Cash_weekOf(st.param, st.today, st.zone),
                      !.briefWeek = Brief_weekStartDate(st.param),
                      !.findingsWeek = Findings_weekStartDate(st.param)]
  /\ UNCHANGED <<route, venueId, week, tasks, db, base, events>>

NextWeeks == Render

SpecWeeks == InitWeeks /\ [][NextWeeks]_vars
(***************************************************************************)
(* Properties                                                              *)
(***************************************************************************)
\* the call most recently started, when this step started one
Started == tasks'[Len(tasks')]

\* this step starts a call of the async function fn
Starts(fn) == Len(tasks') = Len(tasks) + 1 /\ Started.fn = fn

\* the string has no character other than white space
AllWhitespace(r) == \A k \in 1..Len(r) : r[k] = " "

\* in this step the write handler of task i ends in failure with message m
WriteFail(i, m) ==
  \/ handleCreateBudgetFail(i, m)
  \/ handleConfirmBudgetFail(i, m)
  \/ handleCreateLabourPlanFail(i, m)
  \/ handleConfirmLabourPlanFail(i, m)
  \/ handleCreateSnapshotFail(i, m)
  \/ handleSubmitCorrectionFail(i, m)
  \/ handleUploadFail(i, m)
  \/ handleExtractFail(i, m)
  \/ handleReviewFail(i, m)

\* C1: on every workflow page, when a write handler ends in failure at any of
\* its awaited steps, the inline error is the failure message and every list
\* and selection of the page is what it would be had the handler assigned
\* none of them (no partial mutation).  The code does not satisfy this:
\* handleExtract, handleConfirm and handleReject assign candidates before
\* the refresh of the pending candidates, which can still fail.
C1_FailedWriteLeavesLists ==
  [][\A i \in 1..Len(tasks) : \A m \in Msgs :
       WriteFail(i, m) => st'.error = m /\ Lists(route, st') = base]_vars

\* every control of the mounted page that triggers a write is disabled
WriteControlsDisabled ==
  CASE route = "budget" -> CreateBudgetDisabled /\ ConfirmBudgetDisabled
    [] route = "labour" -> CreateLabourPlanDisabled /\ ConfirmLabourPlanDisabled
    [] route = "cash" -> CreateSnapshotDisabled /\ SubmitCorrectionDisabled
    [] route = "evidence" ->
         UploadDisabled /\ ExtractDisabled /\ ReviewDisabled /\ RejectDisabled
    [] OTHER -> TRUE

\* C2: on each workflow page, while a write handler has not returned (its
\* request or its follow-up re-fetch is in flight), submitting is true and
\* every control that triggers a write is disabled; at most one write handler
\* of the page is in flight at a time.
C2_OneWriteInFlight ==
  /\ Cardinality(WriteTasks) <= 1
  /\ WriteTasks # {} => st.submitting /\ WriteControlsDisabled

\* a write is in flight on the Budget page while the create form and a draft
\* card, with their write controls, are on screen
C2_Witness ==
  /\ route = "budget" /\ WriteTasks # {}
  /\ st.showCreateForm /\ ~st.loading
  /\ \E k \in 1..Len(st.budgets) : st.budgets[k].status = "draft"

\* in this step the create handler of task i ends with success
CreateSucceeded(i) ==
  /\ tasks[i].fn \in {"handleCreateBudget", "handleCreateLabourPlan",
                      "handleCreateSnapshot"}
  /\ tasks' = RemoveAt(tasks, i)
  /\ ~\E m \in Msgs : WriteFail(i, m)

\* list new is list old with the one record rec put in front
PrependedTo(new, rec, old) ==
  /\ Len(new) = Len(old) + 1
  /\ new[1] = rec
  /\ \A k \in 1..Len(old) : new[k + 1] = old[k]

ListLoadFns ==
  {"loadBudgets", "loadLabourPlans", "loadSnapshots", "loadWeekHistory",
   "loadEvidence", "loadVariances", "loadFindings"}

\* the state variable a list fetch assigns
ListLoadField(fn) ==
  CASE fn = "loadBudgets" -> "budgets"
    [] fn = "loadLabourPlans" -> "labourPlans"
    [] fn = "loadSnapshots" -> "snapshots"
    [] fn = "loadWeekHistory" -> "weekHistory"
    [] fn = "loadEvidence" -> "evidenceList"
    [] fn = "loadVariances" -> "variances"
    [] fn = "loadFindings" -> "findings"

\* the backend's answer to the request of list fetch t
ListLoadPayload(t) ==
  CASE t.fn = "loadBudgets" -> getBudgets(db, t.venueId, t.status)
    [] t.fn = "loadLabourPlans" -> getLabourPlans(db, t.venueId, t.status)
    [] t.fn = "loadSnapshots" -> getCashSnapshots(db, t.venueId)
    [] t.fn = "loadWeekHistory" -> getCashSnapshotHistory(db, t.venueId, t.selectedWeek)
    [] t.fn = "loadEvidence" -> getEvidenceByVenue(db, t.venueId, t.source)
    [] t.fn = "loadVariances" -> getVariances(t.venueId)
    [] t.fn = "loadFindings" -> getGuardianFindings(t.venueId, t.weekStartDate)

\* in this step the request of list fetch i is rejected
ListLoadFail(i) ==
  \/ \E m \in Msgs :
       \/ loadBudgetsFail(i, m)
       \/ loadLabourPlansFail(i, m)
       \/ loadSnapshotsFail(i, m)
       \/ loadEvidenceFail(i, m)
       \/ loadVariancesFail(i, m)
       \/ loadFindingsFail(i, m)
  \/ loadWeekHistoryFail(i)

\* in this step the response to list fetch i arrives
ListLoadResolved(i) ==
  /\ tasks[i].fn \in ListLoadFns
  /\ tasks' = RemoveAt(tasks, i)
  /\ ~ListLoadFail(i)

\* C4: list fetches are neither cancelled nor sequenced: whenever the
\* response to a list fetch arrives, the list becomes the payload of that
\* response, whether or not a later request of the page has been issued or
\* answered; after overlapping fetches the list is the payload of the
\* response that arrived last.
C4_LastResponseWins ==
  [][\A i \in 1..Len(tasks) :
       ListLoadResolved(i) =>
         st'[ListLoadField(tasks[i].fn)] = ListLoadPayload(tasks[i])]_vars

\* every fetch of the Findings page has settled without error and the list
\* is not the answer for the venue and week now selected
C4_Witness ==
  /\ route = "findings" /\ tasks = <<>>
  /\ venueId # NoParam /\ st.error = NullError
  /\ st.findings # getGuardianFindings(venueId, week)

\* C5: on each read-only page, whenever the selected venue changes (to a
\* venue) or the selected week changes, a new fetch is started and the page
\* re-enters loading.  The code does not satisfy this: the Variance page
\* does not depend on the week, and the Monday Brief page fetches nothing
\* while the URL carries no week.
C5_RefetchOnSelectionChange ==
  [][(/\ route \in {"brief", "variance", "findings"}
      /\ venueId' # venueId \/ week' # week
      /\ venueId' # NoParam)
       => st'.loading /\ Len(tasks') = Len(tasks) + 1]_vars

ConfirmSucceeded(i) ==
  /\ tasks[i].fn \in {"handleConfirmBudget", "handleConfirmLabourPlan"}
  /\ Len(tasks') >= Len(tasks) - 1
  /\ SubSeq(tasks', 1, Len(tasks) - 1) = RemoveAt(tasks, i)
  /\ ~st'.submitting
  /\ ~\E m \in Msgs : WriteFail(i, m)

C8_BlankReasonIssuesNoCorrection ==
  /\ [](route = "cash" =>
          (SubmitCorrectionDisabled <=>
             st.submitting \/ AllWhitespace(st.correctionReason)))
  /\ [][Starts("handleSubmitCorrection") =>
          /\ ~AllWhitespace(st.correctionReason)
          /\ ~AllWhitespace(Started.reason)]_vars

\* the correction form is open with a reason of white space only and its
\* submit control is disabled though no write is in progress
C8_Witness ==
  /\ route = "cash" /\ CorrectionFormShown
  /\ st.correctionReason = <<" ", " ">>
  /\ ~st.submitting /\ SubmitCorrectionDisabled

\* in this step the correction handler of task i ends with success
CorrectionSucceeded(i) ==
  /\ tasks[i].fn = "handleSubmitCorrection"
  /\ tasks' = RemoveAt(tasks, i)
  /\ ~\E m \in Msgs : WriteFail(i, m)

C10_BlankReasonIssuesNoReject ==
  [][Starts("handleReject") =>
       /\ st.rejectTarget # None
       /\ ~AllWhitespace(st.rejectReason)
       /\ ~AllWhitespace(Started.reason)]_vars

\* the rejection form is open with a reason of white space only and its
\* Reject control is disabled though no write is in progress
C10_Witness ==
  /\ route = "evidence" /\ RejectFormShown
  /\ st.rejectReason = <<" ">>
  /\ ~st.submitting /\ RejectDisabled


C12_NotFoundYieldsNull ==
  (Called /\ st.fn \in SingleLookups) =>
    /\ Response.status = 404 => Result = Returned(JsNull)
    /\ (/\ ok(Response.status)
        /\ Response.body.json = "object"
        /\ Response.body.data = Undefined) => Result = Returned(JsNull)

\* getCashSnapshotByWeek has been answered 404 with a body that is not JSON,
\* and has returned null
C12_Witness ==
  /\ Called /\ st.fn = "getCashSnapshotByWeek"
  /\ Response.status = 404 /\ Response.body.json = "none"
  /\ Result.tag = "returned" /\ Result.value = JsNull

\* the response body carries a backend-supplied error text
CarriesError(b) == b.json = "object" /\ ~Falsy(b.error)

\* C13: for every client call, a non-2xx response other than the 404 of a
\* single-record lookup comes to a failure whose message is the backend's
\* error field when the body carries one and the HTTP status text
\* otherwise.  The code does not satisfy this: the read functions never
\* look at the body of a failed response, and the writes parse the body of
\* a failed response without knowing that it is JSON.
C13_FailureCarriesBackendError ==
  (/\ Called
   /\ ~ok(Response.status)
   /\ ~(st.fn \in SingleLookups /\ Response.status = 404)) =>
    /\ Result.tag = "threw"
    /\ Result.error.name = "Error"
    /\ Result.error.text =
         IF CarriesError(Response.body)
         THEN Response.body.error.items[1]
         ELSE statusText(Response.status)

\* C14: for every list fetch of the API client, a 2xx response whose body is
\* a JSON object without the expected envelope key (or with null under it)
\* comes to the empty collection and raises nothing; the keys are venues,
\* briefs, variances, findings, budgets, labourPlans, snapshots, evidence,
\* candidates and versions.
C14_MissingKeyYieldsEmpty ==
  /\ {EnvelopeKey(fn) : fn \in ListFetches} =
       {"venues", "briefs", "variances", "findings", "budgets", "labourPlans",
        "snapshots", "evidence", "candidates", "versions"}
  /\ (/\ Called /\ st.fn \in ListFetches
      /\ ok(Response.status)
      /\ Response.body.json = "object"
      /\ Response.body.data \in {Undefined, JsNull}) => Result = Returned(JsArray(<<>>))

\* getPendingCandidates has been answered 200 with a JSON object that lacks
\* the candidates key, and has returned an empty array
C14_Witness ==
  /\ Called /\ st.fn = "getPendingCandidates"
  /\ Response.status = 200 /\ Response.body.json = "object"
  /\ Response.body.data = Undefined
  /\ Result.tag = "returned" /\ Result.value = JsArray(<<>>)

\* the content types that say application/json
JsonTypes == {<<"application/json">>, <<"application/json", "; charset=utf-8">>}

\* C15: uploadEvidence looks at the content type before it parses anything:
\* for every status and every body, a response whose content type is absent
\* or is not application/json comes to the non-JSON failure and never to a
\* JSON-parse exception; a non-2xx response with a JSON object as body comes
\* to a failure carrying the backend's error text, or the status text when
\* there is none; and only a 2xx response of type application/json returns
\* the uploaded evidence.
C15_UploadChecksContentType ==
  (Called /\ st.fn = "uploadEvidence") =>
    /\ Response.contentType \notin JsonTypes =>
         /\ Result = NonJsonResponse
         /\ Result.error.name # "SyntaxError"
    /\ (/\ Response.contentType \in JsonTypes
        /\ ~ok(Response.status)
        /\ Response.body.json = "object") =>
         /\ Result.tag = "threw" /\ Result.error.name = "Error"
         /\ Result.error.text =
              IF CarriesError(Response.body)
              THEN Response.body.error.items[1]
              ELSE statusText(Response.status)
    /\ Result.tag = "returned" =>
         /\ Response.contentType \in JsonTypes /\ ok(Response.status)
         /\ Result.body = Some(Response.body)
    /\ (/\ Response.contentType \in JsonTypes
        /\ ok(Response.status)
        /\ Response.body.json # "none") => Result.tag = "returned"

\* uploadEvidence has been answered 200 with an HTML page, and has come to
\* the non-JSON failure
C15_Witness ==
  /\ Called /\ st.fn = "uploadEvidence"
  /\ Response.status = 200 /\ Response.contentType = <<"text/html">>
  /\ Response.body.json = "none"
  /\ Result = NonJsonResponse

\* in this step a request made by call i of the mounted page fails
RequestFailed(i) ==
  \/ \E m \in Msgs : WriteFail(i, m) \/ loadBriefFail(i, m)
  \/ ListLoadFail(i)
  \/ Budget_loadVersionsFail(i)
  \/ Labour_loadVersionsFail(i)
  \/ loadPendingCandidatesFail(i)
  \/ loadCandidatesFail(i)

\* C16: every failure of a request made by a page (list loads, version,
\* candidate and history loads, and writes alike) is held as the page's
\* inline error.  The code does not satisfy this: loadVersions,
\* loadPendingCandidates, loadCandidates and loadWeekHistory catch the
\* failure and only write it to the console.
C16_EveryFailureShownInline ==
  [][\A i \in 1..Len(tasks) : RequestFailed(i) => st'.error \in Msgs]_vars

\* the call t is suspended at a request whose URL holds the venue
AwaitsVenueScoped(t) ==
  \/ t.fn \in {"loadBudgets", "loadLabourPlans", "loadSnapshots", "loadWeekHistory",
               "loadEvidence", "loadBrief", "loadVariances", "loadFindings",
               "handleCreateBudget", "handleCreateLabourPlan",
               "handleCreateSnapshot", "handleUpload"}
  \/ t.fn = "handleConfirmBudget" /\ t.pc = "getBudgets"
  \/ t.fn = "handleConfirmLabourPlan" /\ t.pc = "getLabourPlans"

VenueScopedIn(ts) == Cardinality({k \in 1..Len(ts) : AwaitsVenueScoped(ts[k])})

\* this step issues a venue-scoped request
IssuesVenueScoped == VenueScopedIn(tasks') > VenueScopedIn(tasks)

\* C17: while venueId is empty, no page issues a venue-scoped request.  The
\* code does not satisfy this: a confirm handler started under a venue
\* issues its re-fetch of the list, for that venue, after the venue has been
\* cleared.
C17_NoFetchWithoutVenue ==
  [][IssuesVenueScoped => venueId' # NoParam]_vars

\* C18: on the Evidence page the next required action is a function of the
\* fetched lists alone, computed from the state as it is and held in no
\* state variable: upload when the evidence list is empty, otherwise review
\* when the list of pending candidates is not empty, otherwise extract.
C18_NextActionFromLists ==
  route = "evidence" =>
    /\ getNextAction = "upload" <=> st.evidenceList = <<>>
    /\ getNextAction = "review" <=>
         st.evidenceList # <<>> /\ st.pendingCandidates # <<>>
    /\ getNextAction = "extract" <=>
         st.evidenceList # <<>> /\ st.pendingCandidates = <<>>
    /\ DOMAIN st \cap {"nextAction", "action"} = {}

\* a candidate is pending while the evidence list is empty (no evidence of
\* the venue selected): the indicator says upload, not review
C18_Witness ==
  /\ route = "evidence" /\ tasks = <<>>
  /\ st.evidenceList = <<>> /\ st.pendingCandidates # <<>>
  /\ getNextAction = "upload"

\* C19: the selection held in the URL survives every Layout operation: a
\* change of the venue leaves the week and the route as they are, a change
\* of the week leaves the venue and the route as they are, and a navigation
\* to another view carries venue and week over unchanged.
C19_SelectionSurvives ==
  [][/\ venueId' # venueId => week' = week /\ route' = route
     /\ week' # week => venueId' = venueId /\ route' = route
     /\ route' # route => venueId' = venueId /\ week' = week]_vars

\* the Evidence page has just been mounted by a navigation, under the venue
\* and week chosen on another page
C19_Witness ==
  /\ route = "evidence" /\ venueId = "v2" /\ week = "w2"
  /\ Len(tasks) = 2
  /\ tasks[1].fn = "loadEvidence" /\ tasks[1].venueId = "v2"
  /\ tasks[2].fn = "loadPendingCandidates"

\* the segment is not empty and holds digits only
PurelyNumeric(seg) == seg # <<>> /\ \A k \in 1..Len(seg) : seg[k] \in Digits

\* the string has not exactly three segments, or a segment that is not
\* purely numeric
Malformed(s) ==
  \/ Len(split(s)) # 3
  \/ \E k \in 1..Len(split(s)) : ~PurelyNumeric(split(s)[k])

\* C20: parseUKDate returns null for every string that has not exactly three
\* "/"-separated segments and for every string with a segment that is not
\* purely numeric.  The code does not satisfy this: parseInt reads the
\* digits a segment starts with and ignores what follows them, skips leading
\* white space and accepts a sign.
C20_MalformedYieldsNull ==
  (route = "formatting" /\ st.parsed) =>
    (Malformed(st.dateString) => st.date = None)

\* C21: every one of the twelve recent week options has the date of a Monday
\* as its value, whatever the current day of the week.  The code does not
\* satisfy this: subtracting getDay() lands on the Sunday, and the UTC
\* conversion can move the date a further day.
C21_WeekOptionsAreMondays ==
  (route = "weeks" /\ st.called) =>
    \A i \in 1..12 : WeekdayOf(st.options[i]) = 1

\* a request that fetches the page's list is awaiting its response
ListFetchInFlight ==
  \E i \in 1..Len(tasks) :
    \/ tasks[i].fn \in ListLoadFns
    \/ "pc" \in DOMAIN tasks[i] /\ tasks[i].pc \in {"getBudgets", "getLabourPlans"}

\* C22: on the Budget, Labour and Evidence pages, whenever a status (or
\* source) filter other than "all" is in force and no list fetch is in
\* flight, every record of the displayed list has that status (or source).
\* The code does not satisfy this: a create or upload prepends the new record
\* to the list whatever the filter, and a failed fetch leaves the list of the
\* previous filter in place.
C22_ListMatchesFilter ==
  ~ListFetchInFlight =>
    /\ (route = "budget" /\ st.statusFilter # "all") =>
         \A k \in 1..Len(st.budgets) : st.budgets[k].status = st.statusFilter
    /\ (route = "labour" /\ st.statusFilter # "all") =>
         \A k \in 1..Len(st.labourPlans) : st.labourPlans[k].status = st.statusFilter
    /\ (route = "evidence" /\ st.sourceFilter # "all") =>
         \A k \in 1..Len(st.evidenceList) : st.evidenceList[k].source = st.sourceFilter

\* the response to the upload of task i arrives as a success
UploadSucceeded(i) ==
  /\ tasks[i].fn = "handleUpload"
  /\ tasks' = RemoveAt(tasks, i)
  /\ ~\E m \in Msgs : WriteFail(i, m)

\* C23: when a create, upload or correction resolves, the resulting list is
\* the new record followed by the list as it stood when the response
\* arrived, also when a fetch replaced the list while the write was in
\* flight.  The code does not satisfy this: the handler spreads the list of
\* the render it was started in, so what the intervening fetch loaded is
\* lost and the entries of the previous venue, week or filter come back.
C23_PrependsToCurrentList ==
  [][\A i \in 1..Len(tasks) :
       /\ (CreateSucceeded(i) /\ tasks[i].fn = "handleCreateBudget") =>
            PrependedTo(st'.budgets, DbBudget(db', Len(db'.budgets)), st.budgets)
       /\ (CreateSucceeded(i) /\ tasks[i].fn = "handleCreateLabourPlan") =>
            PrependedTo(st'.labourPlans, DbLabourPlan(db', Len(db'.labourPlans)),
                        st.labourPlans)
       /\ ((CreateSucceeded(i) /\ tasks[i].fn = "handleCreateSnapshot")
           \/ CorrectionSucceeded(i)) =>
            /\ PrependedTo(st'.snapshots, DbSnapshot(db', Len(db'.snapshots)),
                           st.snapshots)
            /\ PrependedTo(st'.weekHistory, DbSnapshot(db', Len(db'.snapshots)),
                           st.weekHistory)
       /\ UploadSucceeded(i) =>
            PrependedTo(st'.evidenceList, DbEvidence(db', Len(db'.evidence)),
                        st.evidenceList)]_vars

\* a request for a version history is awaiting its response
VersionFetchInFlight ==
  \E i \in 1..Len(tasks) : tasks[i].fn \in {"Budget_loadVersions", "Labour_loadVersions"}

\* C24: on the Budget and Labour pages, whenever no version fetch is in
\* flight, the version history held by the page is empty or belongs to the
\* selected entity.  The code does not satisfy this: a failed version fetch
\* leaves the history of the previous selection in place, and so does a
\* superseded fetch that arrives last.
C24_VersionsOfSelection ==
  ~VersionFetchInFlight =>
    /\ route = "budget" =>
         \A k \in 1..Len(st.versions) :
           st.selectedBudget # None /\ st.versions[k].budgetId = st.selectedBudget[1].id
    /\ route = "labour" =>
         \A k \in 1..Len(st.versions) :
           st.selectedPlan # None /\ st.versions[k].labourPlanId = st.selectedPlan[1].id

\* C25: on the Evidence page, whenever no request is in flight, every
\* candidate shown in the panel of the selected evidence has the id of that
\* evidence as its evidenceId.  The code does not satisfy this: Extract on a
\* card other than the selected one puts the candidates of that card's
\* evidence in the panel, and a failed candidates fetch leaves those of the
\* previous selection.
C25_CandidatesOfSelection ==
  (route = "evidence" /\ tasks = <<>> /\ CandidatesShown) =>
    \A k \in 1..Len(st.candidates) :
      st.candidates[k].evidenceId = st.selectedEvidence[1].id

\* the correction request of task t targets an original snapshot and carries
\* the week of that snapshot
TargetsOriginalWeek(t, d) ==
  /\ ~d.snapshots[t.snapshotId].isCorrection
  /\ t.weekStartDate = d.snapshots[t.snapshotId].weekStartDate

\* C26: every cash correction request targets an original snapshot and
\* carries the weekStartDate of that snapshot, and the resulting correction
\* is added to the week history of that same week, also when the selected
\* week or venue changes while the correction form is open.  The code does
\* not satisfy this: the request carries the week selected when the form is
\* submitted, not the week of the target.
C26_CorrectionKeepsWeek ==
  [][/\ \A i \in 1..Len(tasks') :
          tasks'[i].fn = "handleSubmitCorrection" => TargetsOriginalWeek(tasks'[i], db')
     /\ \A i \in 1..Len(tasks) :
          CorrectionSucceeded(i) =>
            \A k \in 2..Len(st'.weekHistory) :
              /\ st'.weekHistory[k].weekStartDate = db.snapshots[tasks[i].snapshotId].weekStartDate
              /\ st'.weekHistory[k].venueId = db.snapshots[tasks[i].snapshotId].venueId]_vars

\* C27: the Evidence page issues no review request (confirm or reject) for a
\* candidate whose review has been completed; in particular none through a
\* rejection form that was opened before the candidate was confirmed.  The
\* code does not satisfy this: the rejection form keeps its target when the
\* target is confirmed from its card.
C27_ReviewsOnlyPending ==
  [][(Starts("handleConfirm") \/ Starts("handleReject")) =>
       db.candidates[Started.candidate.id].status = "pending"]_vars

\* the fetches that set the loading flag when they are issued
LoadingFns ==
  {"loadBudgets", "loadLabourPlans", "loadSnapshots", "loadEvidence",
   "loadBrief", "loadVariances", "loadFindings"}

\* C28: on every page the loading flag is true in every state in which a
\* list fetch issued by the page is still in flight; when fetches overlap
\* the indicator is not cleared before the most recently issued fetch has
\* settled.  The code does not satisfy this: every fetch clears the flag in
\* its finally block, whichever fetch is still running.
C28_LoadingWhileFetching ==
  (\E i \in 1..Len(tasks) : tasks[i].fn \in LoadingFns) => st.loading

\* the page holds the submit lock
Submitting == route \in WorkflowRoutes /\ st.submitting

\* C29: provided each request eventually settles, whenever submitting
\* becomes true it eventually becomes false again, on success and on failure
\* of any step of the write handler.
C29_SubmitLockReleased == Submitting ~> ~Submitting

\* a confirm of a candidate has run to its end: the candidate is confirmed,
\* nothing is in flight and the lock is free
C29_Witness ==
  /\ route = "evidence" /\ tasks = <<>> /\ ~st.submitting
  /\ st.error = NullError
  /\ \E k \in 1..Len(db.candidates) : db.candidates[k].status = "confirmed"

\* C30: for every URL, the week the Layout shows as selected is the week
\* each page uses for its requests, also when the URL carries no week
\* parameter.  The code does not satisfy this: without the parameter the
\* Layout shows the first week option, the Cash page uses the Monday of the
\* current week, and the Monday Brief and Guardian Findings pages use the
\* empty string.
C30_PagesUseLayoutWeek ==
  (route = "weeks" /\ st.called) =>
    /\ st.cashWeek = st.layoutWeek
    /\ st.briefWeek = st.layoutWeek
    /\ st.findingsWeek = st.layoutWeek
====
